---- MODULE Spec2Model ----
(***************************************************************************)
(* OpenRelik workers: the control flow of one task invocation of each      *)
(* worker (Yara scan, FLOSS, capa, the config analyzers built by           *)
(* task_factory, and the four container workers), with the block devices   *)
(* it mounts, the external processes it spawns and the result it returns.  *)
(* The task-queue framework, get_input_files, BlockDevice and the external *)
(* binaries are the environment: their outcomes are chosen with \E.        *)
(***************************************************************************)
EXTENDS Integers, Sequences, FiniteSets, TLC

\* ------------------------------------------------------------------ bounds
MaxInputs == 2      \* resolved input files per invocation
MaxMounts == 2      \* mountpoints one BlockDevice.mount() returns
PipeCap == 1        \* chunks the OS buffers in an unread stderr pipe
MaxStrings == 1     \* lines one tool run writes to its stdout file
MaxEvents == 3      \* the "task-progress" counter saturates here
MaxLines == 2       \* lines of fraken output that are parsed
MaxConfigLines == 3  \* lines of a configuration file
MaxCredentials == 2  \* (username, hash) pairs passed to analyze_jenkins
MaxItems == 2       \* container items in the drift output
MaxMatches == 2     \* matches in one line (JSON array) of fraken output
MaxDriftDisks == 1  \* input disks of the drift task when run step by step
MaxContainers == 2  \* container ids passed to run_container_file_extraction
MaxPaths == 2       \* file paths passed to run_container_file_extraction
MaxHashes == 2      \* password hashes passed to one bruteforce_password_hashes call

MaxErr == PipeCap + 1   \* a tool may write more to stderr than the pipe holds

\* analyze_jenkins(version, credentials, timeout=300): seconds, or "None".
DefaultTimeout == "300"

\* ----------------------------------------------------------------- workers
ContainerWorkers ==
    {"container_drift", "container_list", "container_export", "container_file_extraction"}

ConfigWorkers == {"sshd", "redis", "jupyter", "tomcat", "jenkins", "llm"}

Workers == ContainerWorkers \cup ConfigWorkers \cup {"yara", "floss", "capa"}

\* The state of the "path" key of an input file dictionary.
PathStatuses(w) ==
    IF w \in ConfigWorkers \cup {"capa"} THEN {"ok"} ELSE {"absent", "empty", "ok"}

\* "disk": is_disk_image(input_file); "binary": bytes that are not valid UTF-8.
InputKinds(w) ==
    IF w \in ContainerWorkers THEN {"disk"}
    ELSE IF w = "yara" THEN {"file", "disk"}
    ELSE IF w \in ConfigWorkers THEN {"text", "binary"}
    ELSE {"file"}

InputFiles(w) == [path : PathStatuses(w), kind : InputKinds(w)]

SeqsUpTo(S, n) == UNION {[1..k -> S] : k \in 0..n}

\* Variant: only the presence of the key is tested, so an empty path passes.
HasPathKeyOnly(f) == f.path # "absent"

\* `if not input_file_path` is false: the key is present and not empty.
HasPath(f) == f.path = "ok"

\* `"path" in input_file`: the key is present, whatever its value.
HasPathKey(f) == f.path # "absent"

\* The container workers that test the path before building a BlockDevice.
SkipsMissingPath(w) == w \in {"container_drift", "container_file_extraction"}

\* container_export has `except Exception` next to `except RuntimeError`.
CatchesException(w) == w = "container_export"

\* analyze_text_content catches UnicodeDecodeError; the analyze_config functions do not.
CatchesUnicodeDecodeError(w) == w = "llm"

StartPc(w) ==
    IF w = "floss" THEN "floop" ELSE IF w \in ConfigWorkers THEN "cloop" ELSE "start"

VARIABLES
    worker,        \* the task being invoked
    inputs,        \* the resolved input files, in order
    mountImages,   \* task_config["mount_disk_images"] (Yara)
    taskConfig,    \* task_config["container_ids"] and ["file_paths"] (file extraction)
    pc,            \* position in the task function
    idx,           \* index of the input file of the current loop iteration
    bd,            \* the local variable bd: 0 unbound/None, else the input it was built for
    dev,           \* per input: its block device (mounted, mount() returned, umount() calls)
    disksMounted,  \* Yara: disks_mounted
    folders,       \* Yara: the inputs behind each --folder argument
    scanned,       \* Yara: the fraken output file was opened for writing
    matches,       \* Yara: all_matches, as the output lines they came from
    nmounts,       \* container workers: len(mountpoints)
    mp,            \* container workers: index of the current mountpoint
    proc,          \* the external process being waited on
    events,        \* "task-progress" events sent (saturating at MaxEvents)
    visited,       \* inputs whose loop iteration was entered
    spawned,       \* inputs an external process was run on
    outputFiles,   \* output_files, as the inputs they come from
    fileReports,   \* config analyzers: file_reports
    sections,      \* config analyzers: sections of task_report
    strings,       \* FLOSS: lines in each input's output file
    faults,        \* kinds of environment failures that have happened
    pending,       \* exception propagating through a finally block
    outcome,       \* "running", "result" (create_task_result returned) or "raised"
    exc,           \* the exception the task raised
    result,        \* the arguments create_task_result was called with
    tempDir,       \* the temporary directory a container helper made last
    unit,          \* the helper function called on its own, "none" inside a task
    arg,           \* its argument
    upc,           \* its position
    report,        \* the Report it builds
    ret,           \* the list it builds or returns
    child,         \* the password-cracking process and its deadline timer
    run,           \* run_container_drift: its two container-explorer runs
    ctr,           \* run_container_file_extraction: its loops, mounts and directories
    jobs,          \* bruteforce_password_hashes invocations running in the worker pool
    potFile        \* the pot file they share

vars == <<worker, inputs, mountImages, taskConfig, pc, idx, bd, dev, disksMounted, folders, scanned,
          matches, nmounts, mp, proc, events, visited, spawned, outputFiles, fileReports,
          sections, strings, faults, pending, outcome, exc, result, tempDir,
          unit, arg, upc, report, ret, child, run, ctr, jobs, potFile>>

\* ---------------------------------------------- task configuration strings
\* A value of the task configuration: the key is present or not, and the
\* characters of its string.
Key(present, s) == [present |-> present, s |-> s]

\* The values a user leaves out, leaves empty, or fills with "a, b".
ConfigValues == {Key(FALSE, <<>>), Key(TRUE, <<>>), Key(TRUE, <<"a", ",", " ", "b">>)}

TaskConfigs == [container_ids : ConfigValues, file_paths : ConfigValues]

\* The task configuration of a worker that reads neither key.
NoTaskConfig == [container_ids |-> Key(FALSE, <<>>), file_paths |-> Key(FALSE, <<>>)]

\* str.split(sep): the pieces between the separators; "".split(",") is [""].
RECURSIVE Split(_, _)
Split(s, sep) ==
    IF \A k \in 1..Len(s) : s[k] # sep THEN <<s>>
    ELSE LET k == CHOOSE k \in 1..Len(s) : s[k] = sep /\ \A j \in 1..(k - 1) : s[j] # sep
         IN <<SubSeq(s, 1, k - 1)>> \o Split(SubSeq(s, k + 1, Len(s)), sep)

\* str.strip()
RECURSIVE Strip(_)
Strip(s) ==
    IF s # <<>> /\ Head(s) = " " THEN Strip(Tail(s))
    ELSE IF s # <<>> /\ s[Len(s)] = " " THEN Strip(SubSeq(s, 1, Len(s) - 1))
    ELSE s

\* [x.strip() for x in s.split(",")]
SplitStrip(s) == LET parts == Split(s, ",") IN [k \in 1..Len(parts) |-> Strip(parts[k])]

\* task_config.get("container_ids", []): the default is a list, which has no split().
ContainerIdsIsStr == taskConfig.container_ids.present

container_ids == SplitStrip(taskConfig.container_ids.s)

\* task_config.get("file_paths", ""): an absent key reads as the empty string.
file_paths ==
    SplitStrip(IF taskConfig.file_paths.present THEN taskConfig.file_paths.s ELSE <<>>)

\* `if not container_ids:` and `if not file_paths:` test the list after the split.
Missing(list) == list = <<>>

\* report_bullet of container_file_extraction.
report_bullet ==
    (IF Missing(container_ids)
     THEN <<"Container IDs not provided. Container ID is required.">> ELSE <<>>)
    \o (IF Missing(file_paths)
        THEN <<"File paths not provided. File paths are required.">> ELSE <<>>)
    \o (IF inputs = <<>> THEN <<"No supported input files provided.">> ELSE <<>>)

\* `if not container_ids or not file_paths or not input_files:`; the other
\* container workers test the input files only.
ReturnsEarly(w) ==
    \/ inputs = <<>>
    \/ /\ w = "container_file_extraction"
       /\ \/ Missing(container_ids)
          \/ Missing(file_paths)

NoDev == [mounted |-> FALSE, ret |-> FALSE, um |-> 0]

NoProc == [alive |-> FALSE, errLeft |-> 0, pipe |-> 0, lines |-> 0]

\* No task result: the task is running or has raised.
NoResult == [report |-> FALSE, text |-> <<>>, taskFiles |-> {}]

\* The result of the `if not input_files:` branch of the container workers:
\* whether task_report is passed, the paragraphs and bullets of its section,
\* and task_files. container_list builds its report without content;
\* container_export passes neither task_report nor task_files.
EarlyResult(w) ==
    CASE w = "container_drift" ->
            [report |-> TRUE, text |-> <<"No supported input files provided">>,
             taskFiles |-> {"log"}]
      [] w = "container_list" ->
            [report |-> TRUE, text |-> <<>>, taskFiles |-> {"log"}]
      [] w = "container_export" ->
            [report |-> FALSE, text |-> <<>>, taskFiles |-> {}]
      [] w = "container_file_extraction" ->
            [report |-> TRUE, text |-> report_bullet, taskFiles |-> {"log"}]

\* The result at the end of the task function: every worker but FLOSS and capa
\* passes a task_report (its content is summarised as "summary"), and only
\* the container workers pass task_files.
FinalResult(w) ==
    [report |-> w \notin {"floss", "capa"},
     text |-> IF w \in {"floss", "capa"} THEN <<>> ELSE <<"summary">>,
     taskFiles |-> IF w \in ContainerWorkers THEN {"log"} ELSE {}]

\* No Report object yet.
NoReport == [priority |-> "none", summary |-> "", bullets |-> <<>>]

\* No cracking process.
NoChild == [alive |-> FALSE, timer |-> "none", interval |-> "none", pot |-> <<>>]

\* A container-explorer run that was not made: whether it ran, its exit
\* code, what it left in its output file and whether that file was read.
NoRun == [ran |-> FALSE, exit |-> 0, file |-> [kind |-> "missing", data |-> <<>>],
          read |-> FALSE]

NoRuns == [containerd |-> NoRun, docker |-> NoRun]

\* run_container_file_extraction not called: the index of the container and
\* of the path being processed, container_output_files, the containers
\* mounted, the mount directories that exist, the calls of unmount_container
\* and shutil.rmtree per loop iteration, and the exception it raised.
NoContainers ==
    [i |-> 0, k |-> 0, out |-> <<>>, mounted |-> {}, dirs |-> {}, umounts |-> <<>>,
     rmtrees |-> <<>>, error |-> "none"]

\* No pot file on disk.
NoPotFile == [exists |-> FALSE, lines |-> <<>>]

\* No helper of the sections below is running.
HelpersIdle ==
    /\ run = NoRuns
    /\ ctr = NoContainers
    /\ jobs = <<>>
    /\ potFile = NoPotFile

\* The state of a task function that has not started.
TaskFresh ==
    /\ pc = StartPc(worker)
    /\ idx = 1
    /\ bd = 0
    /\ dev = [i \in 1..Len(inputs) |-> NoDev]
    /\ disksMounted = <<>>
    /\ folders = <<>>
    /\ scanned = FALSE
    /\ matches = <<>>
    /\ nmounts = 0
    /\ mp = 0
    /\ proc = NoProc
    /\ events = 0
    /\ visited = {}
    /\ spawned = {}
    /\ outputFiles = <<>>
    /\ fileReports = <<>>
    /\ sections = <<>>
    /\ strings = [i \in 1..Len(inputs) |-> 0]
    /\ faults = {}
    /\ pending = "none"
    /\ outcome = "running"
    /\ exc = "none"
    /\ result = NoResult
    /\ tempDir = "none"

Init ==
    /\ worker \in Workers
    /\ inputs \in SeqsUpTo(InputFiles(worker), MaxInputs)
    /\ mountImages \in (IF worker = "yara" THEN BOOLEAN ELSE {FALSE})
    /\ taskConfig \in (IF worker = "container_file_extraction" THEN TaskConfigs
                       ELSE {NoTaskConfig})
    /\ TaskFresh
    /\ unit = "none"
    /\ arg = <<>>
    /\ upc = "idle"
    /\ report = NoReport
    /\ ret = <<>>
    /\ child = NoChild
    /\ HelpersIdle

\* ---------------------------------------------------------------- helpers
\* BlockDevice.mount() returned a list of mountpoints.
MountOk(d, i) == [d EXCEPT ![i] = [@ EXCEPT !.mounted = TRUE, !.ret = TRUE]]

\* BlockDevice.umount().
Umount(d, i) == [d EXCEPT ![i] = [@ EXCEPT !.mounted = FALSE, !.um = @ + 1]]

RECURSIVE UmountAll(_, _)
UmountAll(d, s) == IF s = <<>> THEN d ELSE UmountAll(Umount(d, Head(s)), Tail(s))

\* self.send_event("task-progress", ...)
SendEvent(n) == IF n < MaxEvents THEN n + 1 ELSE n

Range(s) == {s[i] : i \in 1..Len(s)}

Repeat(x, k) == [j \in 1..k |-> x]

\* The task function returns create_task_result(...) or raises e.
Finish(o, e) ==
    /\ outcome' = o
    /\ exc' = e
    /\ result' = IF o # "result" THEN NoResult
                 ELSE IF worker \in ContainerWorkers /\ pc = "start" THEN EarlyResult(worker)
                 ELSE FinalResult(worker)
    /\ pc' = "done"


cfgVars == <<worker, inputs, mountImages, taskConfig>>
yaraVars == <<disksMounted, folders, scanned, matches>>
mountVars == <<bd, dev, nmounts, mp>>
reportVars == <<fileReports, sections>>
endVars == <<outcome, exc, result>>
unitVars == <<unit, arg, upc, report, ret, child>>
helperVars == <<run, ctr, jobs, potFile>>

\* ------------------------------------------------------- container workers
\* container_drift, container_list, container_export and container_file_extraction
\* share one shape: early return on no input, then per disk try / except / finally.

\* `if not input_files:` return a result without sending an event; otherwise
\* self.send_event("task-progress") and enter the loop. container_file_extraction
\* first splits its two parameters, which raises AttributeError on the list
\* default of an absent container_ids key, and returns early for them too.
ContainerStart ==
    /\ worker \in ContainerWorkers
    /\ pc = "start"
    /\ IF worker = "container_file_extraction" /\ ~ContainerIdsIsStr
       THEN /\ Finish("raised", "AttributeError")
            /\ UNCHANGED events
       ELSE IF ReturnsEarly(worker)
       THEN /\ Finish("result", "none")
            /\ UNCHANGED events
       ELSE /\ events' = SendEvent(events)
            /\ pc' = "loop"
            /\ UNCHANGED endVars
    /\ UNCHANGED <<cfgVars, unitVars, helperVars, tempDir, yaraVars, mountVars, reportVars, idx, proc, visited, spawned,
                   outputFiles, strings, faults, pending>>

\* The head of `for input_file in input_files:` with the path test of
\* container_drift and container_file_extraction; after the last input the
\* report is built and the task result returned.
ContainerLoop ==
    /\ worker \in ContainerWorkers
    /\ pc = "loop"
    /\ IF idx > Len(inputs)
       THEN /\ Finish("result", "none")
            /\ UNCHANGED <<idx, visited>>
       ELSE /\ visited' = visited \cup {idx}
            /\ IF SkipsMissingPath(worker) /\ ~HasPath(inputs[idx])
               THEN /\ idx' = idx + 1
                    /\ pc' = "loop"
               ELSE /\ pc' = "try"
                    /\ UNCHANGED idx
            /\ UNCHANGED endVars
    /\ UNCHANGED <<cfgVars, unitVars, helperVars, tempDir, yaraVars, mountVars, reportVars, proc, events, spawned,
                   outputFiles, strings, faults, pending>>

\* bd = BlockDevice(...); bd.setup(); mountpoints = bd.mount() and the test for
\* an empty mountpoint list, which calls bd.umount() and continues (through
\* the finally block). The constructor, setup() and mount() may raise RuntimeError.
ContainerMount ==
    /\ worker \in ContainerWorkers
    /\ pc = "try"
    /\ \E o \in {"ctor", "setup", "mount", "ok"} :
          \/ /\ o = "ctor"
             /\ faults' = faults \cup {"ctor"}
             /\ pc' = "finally"
             /\ UNCHANGED <<bd, dev, nmounts, mp>>
          \/ /\ o \in {"setup", "mount"}
             /\ faults' = faults \cup {o}
             /\ bd' = idx
             /\ pc' = "finally"
             /\ UNCHANGED <<dev, nmounts, mp>>
          \/ /\ o = "ok"
             /\ bd' = idx
             /\ \E k \in 0..MaxMounts :
                   /\ nmounts' = k
                   /\ IF k = 0
                      THEN /\ dev' = Umount(MountOk(dev, idx), idx)
                           /\ pc' = "finally"
                           /\ UNCHANGED mp
                      ELSE /\ dev' = MountOk(dev, idx)
                           /\ mp' = 1
                           /\ pc' = "mountpoints"
             /\ UNCHANGED faults
    /\ UNCHANGED <<cfgVars, unitVars, helperVars, tempDir, yaraVars, reportVars, endVars, idx, proc, events, visited,
                   spawned, outputFiles, strings, pending>>

\* Output files one mountpoint with data adds: drift writes JSON and CSV,
\* the others one file.
MountpointOutputs(w, i) == IF w = "container_drift" THEN <<i, i>> ELSE <<i>>

\* The helper that removes its temporary directory in a finally block:
\* export_container and export_all_containers. run_container_drift and
\* list_containers call shutil.rmtree as their last statement only.
RemovesInFinally(w) == w = "container_export"

\* The temporary directory after the helper returned: made with a uuid4 name
\* and removed by drift, list and export. run_container_file_extraction makes
\* none when no container matches and leaves it behind on the `continue`
\* after a failed container mount or an empty extraction.
DirAfterReturn(w, r, found) ==
    IF w # "container_file_extraction" THEN "removed"
    ELSE IF r = "data" THEN "removed"
    ELSE IF found THEN "left" ELSE tempDir

\* The temporary directory after an exception: one raised inside the helper,
\* after its os.mkdir, is passed by the finally block of the export helpers only.
DirAfterRaise(w, inside) ==
    IF ~inside THEN tempDir
    ELSE IF RemovesInFinally(w) THEN "removed" ELSE "left"

\* One iteration of `for mountpoint in mountpoints:`: the mountpoint has no
\* container root, the tool finds nothing, the tool produces data, or a call
\* below raises something that is not a RuntimeError (subprocess.run, open,
\* create_output_file, ...), inside the helper or outside it.
ContainerMountpoint ==
    /\ worker \in ContainerWorkers
    /\ pc = "mountpoints"
    /\ IF mp > nmounts
       THEN /\ pc' = "finally"
            /\ UNCHANGED <<mp, spawned, outputFiles, faults, pending, tempDir>>
       ELSE \E r \in {"noroot", "nodata", "data", "other"}, b \in BOOLEAN :
               \/ /\ r = "noroot"
                  /\ b
                  /\ mp' = mp + 1
                  /\ UNCHANGED <<pc, spawned, outputFiles, faults, pending, tempDir>>
               \/ /\ r = "nodata"
                  /\ mp' = mp + 1
                  /\ spawned' = spawned \cup {idx}
                  /\ tempDir' = DirAfterReturn(worker, r, b)
                  /\ UNCHANGED <<pc, outputFiles, faults, pending>>
               \/ /\ r = "data"
                  /\ b
                  /\ mp' = mp + 1
                  /\ spawned' = spawned \cup {idx}
                  /\ outputFiles' = outputFiles \o MountpointOutputs(worker, idx)
                  /\ tempDir' = DirAfterReturn(worker, r, b)
                  /\ UNCHANGED <<pc, faults, pending>>
               \/ /\ r = "other"
                  /\ faults' = faults \cup {"other"}
                  /\ pending' = IF CatchesException(worker) THEN "none" ELSE "OSError"
                  /\ tempDir' = DirAfterRaise(worker, b)
                  /\ pc' = "finally"
                  /\ UNCHANGED <<mp, spawned, outputFiles>>
    /\ UNCHANGED <<cfgVars, unitVars, helperVars, yaraVars, reportVars, endVars, idx, bd, dev, nmounts, proc,
                   events, visited, strings>>

\* Variant: the finally block logs but does not call bd.umount().
ContainerFinallyNoUmount ==
    /\ worker \in ContainerWorkers
    /\ pc = "finally"
    /\ IF bd = 0
       THEN /\ Finish("raised", "UnboundLocalError")
            /\ UNCHANGED <<idx, pending>>
       ELSE IF pending # "none"
       THEN /\ Finish("raised", pending)
            /\ UNCHANGED <<idx, pending>>
       ELSE /\ idx' = idx + 1
            /\ pc' = "loop"
            /\ UNCHANGED <<endVars, pending>>
    /\ UNCHANGED <<cfgVars, unitVars, helperVars, tempDir, yaraVars, reportVars, bd, dev, nmounts, mp, proc, events,
                   visited, spawned, outputFiles, strings, faults>>

\* finally: bd.umount(), on whatever bd is bound to; an unbound bd raises
\* UnboundLocalError. Then the pending exception propagates or the loop goes on.
ContainerFinally ==
    /\ worker \in ContainerWorkers
    /\ pc = "finally"
    /\ IF bd = 0
       THEN /\ Finish("raised", "UnboundLocalError")
            /\ UNCHANGED <<dev, idx, pending>>
       ELSE /\ dev' = Umount(dev, bd)
            /\ IF pending # "none"
               THEN /\ Finish("raised", pending)
                    /\ UNCHANGED <<idx, pending>>
               ELSE /\ idx' = idx + 1
                    /\ pc' = "loop"
                    /\ UNCHANGED <<endVars, pending>>
    /\ UNCHANGED <<cfgVars, unitVars, helperVars, tempDir, yaraVars, reportVars, bd, nmounts, mp, proc, events, visited,
                   spawned, outputFiles, strings, faults>>


\* ------------------------------------------------------- external process
\* A process started with stderr=subprocess.PIPE. Nobody reads the pipe while
\* the process is alive, so a write to stderr succeeds only while the pipe has room.
Popen(e) == [alive |-> TRUE, errLeft |-> e, pipe |-> 0, lines |-> 0]

\* The process may not exit before it has written all it has to write.
Blocked(p) == p.alive /\ p.errLeft > 0 /\ p.pipe = PipeCap

ProcWriteStderr ==
    /\ proc.alive
    /\ proc.errLeft > 0
    /\ proc.pipe < PipeCap
    /\ proc' = [proc EXCEPT !.errLeft = @ - 1, !.pipe = @ + 1]
    /\ UNCHANGED <<cfgVars, unitVars, helperVars, tempDir, yaraVars, mountVars, reportVars, endVars, pc, idx, events,
                   visited, spawned, outputFiles, strings, faults, pending>>

\* stdout is a file: writing a line to it never blocks.
ProcWriteStdout ==
    /\ proc.alive
    /\ worker = "floss"
    /\ proc.lines < MaxStrings
    /\ proc' = [proc EXCEPT !.lines = @ + 1]
    /\ UNCHANGED <<cfgVars, unitVars, helperVars, tempDir, yaraVars, mountVars, reportVars, endVars, pc, idx, events,
                   visited, spawned, outputFiles, strings, faults, pending>>

ProcExit ==
    /\ proc.alive
    /\ proc.errLeft = 0
    /\ proc' = [proc EXCEPT !.alive = FALSE]
    /\ UNCHANGED <<cfgVars, unitVars, helperVars, tempDir, yaraVars, mountVars, reportVars, endVars, pc, idx, events,
                   visited, spawned, outputFiles, strings, faults, pending>>

\* -------------------------------------------------------------- Yara scan
\* The rule checks before any input is touched: no rules configured raises
\* RuntimeError, no rule content collected raises ValueError.
YaraStart ==
    /\ worker = "yara"
    /\ pc = "start"
    /\ \E rules \in {"none", "empty", "ok"} :
          \/ /\ rules = "none"
             /\ Finish("raised", "RuntimeError: no Yara rules provided")
          \/ /\ rules = "empty"
             /\ Finish("raised", "ValueError: no Yara rules collected")
          \/ /\ rules = "ok"
             /\ pc' = "yloop"
             /\ UNCHANGED endVars
    /\ UNCHANGED <<cfgVars, unitVars, helperVars, tempDir, yaraVars, mountVars, reportVars, idx, proc, events, visited,
                   spawned, outputFiles, strings, faults, pending>>

\* One iteration of the input loop inside the try block: skip an input without
\* a "path" key; mount a disk image and add its mountpoints; otherwise add
\* the path itself. A RuntimeError leaves the loop for the except clause.
YaraLoop ==
    /\ worker = "yara"
    /\ pc = "yloop"
    /\ IF idx > Len(inputs)
       THEN /\ pc' = "yscan"
            /\ UNCHANGED <<idx, visited, bd, dev, disksMounted, folders, faults>>
       ELSE /\ visited' = visited \cup {idx}
            /\ IF ~HasPathKey(inputs[idx])
               THEN /\ idx' = idx + 1
                    /\ UNCHANGED <<pc, bd, dev, disksMounted, folders, faults>>
               ELSE IF mountImages /\ inputs[idx].kind = "disk"
               THEN \E o \in {"ctor", "setup", "mount", "ok"} :
                       \/ /\ o = "ctor"
                          /\ faults' = faults \cup {"ctor"}
                          /\ pc' = "yfinally"
                          /\ UNCHANGED <<idx, bd, dev, disksMounted, folders>>
                       \/ /\ o \in {"setup", "mount"}
                          /\ faults' = faults \cup {o}
                          /\ bd' = idx
                          /\ pc' = "yfinally"
                          /\ UNCHANGED <<idx, dev, disksMounted, folders>>
                       \/ /\ o = "ok"
                          /\ bd' = idx
                          /\ dev' = MountOk(dev, idx)
                          /\ disksMounted' = Append(disksMounted, idx)
                          /\ \E k \in 0..MaxMounts : folders' = folders \o Repeat(idx, k)
                          /\ idx' = idx + 1
                          /\ UNCHANGED <<pc, faults>>
               ELSE /\ folders' = Append(folders, idx)
                    /\ idx' = idx + 1
                    /\ UNCHANGED <<pc, bd, dev, disksMounted, faults>>
    /\ UNCHANGED <<cfgVars, unitVars, helperVars, tempDir, reportVars, endVars, scanned, matches, nmounts, mp, proc,
                   events, pending, spawned, outputFiles, strings>>

\* open(fraken_output.path, "w+"), send_event("task-progress"), Popen(cmd,
\* stderr=PIPE). Popen may raise OSError, which is no RuntimeError.
YaraScan ==
    /\ worker = "yara"
    /\ pc = "yscan"
    /\ scanned' = TRUE
    /\ events' = SendEvent(events)
    /\ \E o \in {"spawn", "oserror"} :
          \/ /\ o = "spawn"
             /\ \E e \in 0..MaxErr : proc' = Popen(e)
             /\ spawned' = Range(folders)
             /\ pc' = "ywait"
             /\ UNCHANGED <<faults, pending>>
          \/ /\ o = "oserror"
             /\ faults' = faults \cup {"other"}
             /\ pending' = "OSError"
             /\ pc' = "yfinally"
             /\ UNCHANGED <<proc, spawned>>
    /\ UNCHANGED <<cfgVars, unitVars, helperVars, tempDir, mountVars, reportVars, endVars, disksMounted, folders, matches,
                   idx, visited, outputFiles, strings>>

\* process.wait() returns once the process has exited; only then is stderr read.
YaraWait ==
    /\ worker = "yara"
    /\ pc = "ywait"
    /\ ~proc.alive
    /\ pc' = "yfinally"
    /\ UNCHANGED <<cfgVars, unitVars, helperVars, tempDir, yaraVars, mountVars, reportVars, endVars, idx, proc, events,
                   visited, spawned, outputFiles, strings, faults, pending>>

\* Variant: the finally block calls umount() on bd, the last device built,
\* instead of on every device of disks_mounted.
YaraFinallyLastOnly ==
    /\ worker = "yara"
    /\ pc = "yfinally"
    /\ dev' = IF bd = 0 THEN dev ELSE Umount(dev, bd)
    /\ IF pending # "none"
       THEN Finish("raised", pending)
       ELSE /\ pc' = "yparse"
            /\ UNCHANGED endVars
    /\ UNCHANGED <<cfgVars, unitVars, helperVars, tempDir, yaraVars, reportVars, bd, nmounts, mp, idx, proc, events,
                   visited, spawned, outputFiles, strings, faults, pending>>

\* finally: umount every block device of disks_mounted; then a pending
\* exception propagates, or the output is parsed.
YaraFinally ==
    /\ worker = "yara"
    /\ pc = "yfinally"
    /\ dev' = UmountAll(dev, disksMounted)
    /\ IF pending # "none"
       THEN Finish("raised", pending)
       ELSE /\ pc' = "yparse"
            /\ UNCHANGED endVars
    /\ UNCHANGED <<cfgVars, unitVars, helperVars, tempDir, yaraVars, reportVars, bd, nmounts, mp, idx, proc, events,
                   visited, spawned, outputFiles, strings, faults, pending>>

\* What one line of fraken output is: a JSON array with one match, an empty
\* JSON array, or text json.loads rejects (empty, truncated, malformed).
FrakenLines == {"match", "nomatch", "malformed"}

\* The lines json.loads accepted before the first it rejects.
RECURSIVE ParsedPrefix(_)
ParsedPrefix(ls) ==
    IF ls = <<>> \/ Head(ls) = "malformed" THEN <<>> ELSE <<Head(ls)>> \o ParsedPrefix(Tail(ls))

\* all_matches after parsing the lines ls: the index of the line of each match.
MatchesOf(ls) == SelectSeq([i \in 1..Len(ls) |-> IF ls[i] = "match" THEN i ELSE 0], LAMBDA x : x > 0)

\* Opening the output file for reading, json.loads on each line, the report
\* and the task result. The file exists if the scan block opened it; if the
\* block was left before, whether create_output_file left a file is the
\* environment's choice. json.loads raises JSONDecodeError, which nothing catches.
YaraParse ==
    /\ worker = "yara"
    /\ pc = "yparse"
    /\ \E exists \in (IF scanned THEN {TRUE} ELSE BOOLEAN) :
          IF ~exists
          THEN /\ Finish("raised", "FileNotFoundError")
               /\ UNCHANGED <<matches, faults, outputFiles>>
          ELSE \E ls \in SeqsUpTo(FrakenLines, IF scanned THEN MaxLines ELSE 0) :
                  /\ matches' = MatchesOf(ParsedPrefix(ls))
                  /\ IF ParsedPrefix(ls) # ls
                     THEN /\ faults' = faults \cup {"json"}
                          /\ Finish("raised", "JSONDecodeError")
                          /\ UNCHANGED outputFiles
                     ELSE /\ Finish("result", "none")
                          /\ outputFiles' = <<0, 0>>
                          /\ UNCHANGED faults
    /\ UNCHANGED <<cfgVars, unitVars, helperVars, tempDir, mountVars, reportVars, disksMounted, folders, scanned, idx,
                   proc, events, visited, spawned, strings, pending>>


\* ------------------------------------------------------------------ FLOSS
\* Variant: the line count of the output file is not looked at.
NoOutputFiles == outputFiles = <<>>

\* `not output_files or count_file_lines(output_file.path) == 0`, where
\* output_file is the loop variable: the output file of the last input.
NoStringsFound == outputFiles = <<>> \/ strings[Len(inputs)] = 0

\* The head of the input loop: create the output file, raise ValueError when
\* the input has no path, else Popen(run_command, stdout=fh, stderr=PIPE).
\* After the last input: the "FLOSS found no strings." test, then the task result.
FlossLoop ==
    /\ worker = "floss"
    /\ pc = "floop"
    /\ IF idx > Len(inputs)
       THEN /\ IF NoStringsFound
               THEN Finish("raised", "RuntimeError: FLOSS found no strings.")
               ELSE Finish("result", "none")
            /\ UNCHANGED <<visited, spawned, proc>>
       ELSE /\ visited' = visited \cup {idx}
            /\ IF ~HasPath(inputs[idx])
               THEN /\ Finish("raised", "ValueError: input file path is missing")
                    /\ UNCHANGED <<spawned, proc>>
               ELSE /\ \E e \in 0..MaxErr : proc' = Popen(e)
                    /\ spawned' = spawned \cup {idx}
                    /\ pc' = "fpoll"
                    /\ UNCHANGED endVars
    /\ UNCHANGED <<cfgVars, unitVars, helperVars, tempDir, yaraVars, mountVars, reportVars, idx, events, outputFiles,
                   strings, faults, pending>>

\* One round of `while process.poll() is None:`: count the lines, send a
\* progress event, sleep update_interval_s.
FlossPoll ==
    /\ worker = "floss"
    /\ pc = "fpoll"
    /\ proc.alive
    /\ events' = SendEvent(events)
    /\ UNCHANGED <<cfgVars, unitVars, helperVars, tempDir, yaraVars, mountVars, reportVars, endVars, pc, idx, proc,
                   visited, spawned, outputFiles, strings, faults, pending>>

\* Variant: the text read from stderr is logged and the loop goes on.
FlossReapLogsStderr ==
    /\ worker = "floss"
    /\ pc = "fpoll"
    /\ ~proc.alive
    /\ strings' = [strings EXCEPT ![idx] = proc.lines]
    /\ faults' = IF proc.pipe > 0 THEN faults \cup {"stderr"} ELSE faults
    /\ outputFiles' = Append(outputFiles, idx)
    /\ idx' = idx + 1
    /\ pc' = "floop"
    /\ UNCHANGED <<cfgVars, unitVars, helperVars, tempDir, yaraVars, mountVars, reportVars, endVars, proc, events,
                   visited, spawned, pending>>

\* poll() is not None: read stderr, raise RuntimeError(err_message) when it
\* is not empty, else append the output file and go to the next input.
FlossReap ==
    /\ worker = "floss"
    /\ pc = "fpoll"
    /\ ~proc.alive
    /\ strings' = [strings EXCEPT ![idx] = proc.lines]
    /\ IF proc.pipe > 0
       THEN /\ faults' = faults \cup {"stderr"}
            /\ Finish("raised", "RuntimeError: stderr text")
            /\ UNCHANGED <<idx, outputFiles>>
       ELSE /\ outputFiles' = Append(outputFiles, idx)
            /\ idx' = idx + 1
            /\ pc' = "floop"
            /\ UNCHANGED <<endVars, faults>>
    /\ UNCHANGED <<cfgVars, unitVars, helperVars, tempDir, yaraVars, mountVars, reportVars, proc, events, visited,
                   spawned, pending>>

\* ------------------------------------------------------------------- capa
\* self.send_event("task-progress") before the loop.
CapaStart ==
    /\ worker = "capa"
    /\ pc = "start"
    /\ events' = SendEvent(events)
    /\ pc' = "caploop"
    /\ UNCHANGED <<cfgVars, unitVars, helperVars, tempDir, yaraVars, mountVars, reportVars, endVars, idx, proc, visited,
                   spawned, outputFiles, strings, faults, pending>>

\* Per input three runs (JSON, summary, detailed), each after one progress
\* event and each adding one output file; stderr is inherited, not piped.
CapaLoop ==
    /\ worker = "capa"
    /\ pc = "caploop"
    /\ IF idx > Len(inputs)
       THEN /\ Finish("result", "none")
            /\ UNCHANGED <<idx, events, visited, spawned, outputFiles>>
       ELSE /\ visited' = visited \cup {idx}
            /\ events' = SendEvent(SendEvent(SendEvent(events)))
            /\ spawned' = spawned \cup {idx}
            /\ outputFiles' = outputFiles \o <<idx, idx, idx>>
            /\ idx' = idx + 1
            /\ UNCHANGED <<pc, endVars>>
    /\ UNCHANGED <<cfgVars, unitVars, helperVars, tempDir, yaraVars, mountVars, reportVars, proc, strings, faults, pending>>

\* ------------------------------------------------------- config analyzers
\* config_analyzer of task_factory: per input a progress event, then the
\* analysis function. It reads the file as UTF-8: analyze_text_content returns
\* None on UnicodeDecodeError, the analyze_config functions let it propagate.
\* A report adds the file report, the report file and a task-report section.
ConfigLoop ==
    /\ worker \in ConfigWorkers
    /\ pc = "cloop"
    /\ IF idx > Len(inputs)
       THEN /\ Finish("result", "none")
            /\ UNCHANGED <<idx, events, visited, outputFiles, fileReports, sections>>
       ELSE /\ visited' = visited \cup {idx}
            /\ events' = SendEvent(events)
            /\ IF inputs[idx].kind = "binary"
               THEN IF CatchesUnicodeDecodeError(worker)
                    THEN /\ idx' = idx + 1
                         /\ UNCHANGED <<pc, endVars, outputFiles, fileReports, sections>>
                    ELSE /\ Finish("raised", "UnicodeDecodeError")
                         /\ UNCHANGED <<idx, outputFiles, fileReports, sections>>
               ELSE /\ fileReports' = Append(fileReports, idx)
                    /\ sections' = Append(sections, idx)
                    /\ outputFiles' = Append(outputFiles, idx)
                    /\ idx' = idx + 1
                    /\ UNCHANGED <<pc, endVars>>
    /\ UNCHANGED <<cfgVars, unitVars, helperVars, tempDir, yaraVars, mountVars, proc, spawned, strings, faults, pending>>

\* ---------------------------------------------------------- specification
Next ==
    \/ ContainerStart
    \/ ContainerLoop
    \/ ContainerMount
    \/ ContainerMountpoint
    \/ ContainerFinally
    \/ ProcWriteStderr
    \/ ProcWriteStdout
    \/ ProcExit
    \/ YaraStart
    \/ YaraLoop
    \/ YaraScan
    \/ YaraWait
    \/ YaraFinally
    \/ YaraParse
    \/ FlossLoop
    \/ FlossPoll
    \/ FlossReap
    \/ CapaStart
    \/ CapaLoop
    \/ ConfigLoop

Spec == Init /\ [][Next]_vars

TypeOK ==
    /\ worker \in Workers
    /\ pc \in {"start", "loop", "try", "mountpoints", "finally", "yloop", "yscan", "ywait",
               "yfinally", "yparse", "floop", "fpoll", "caploop", "cloop", "done"}
    /\ idx \in 1..(Len(inputs) + 1)
    /\ bd \in 0..Len(inputs)
    /\ events \in 0..MaxEvents
    /\ outcome \in {"running", "result", "raised"}
    /\ (pc = "done") = (outcome # "running")
    /\ result.taskFiles \subseteq {"log"}
    /\ tempDir \in {"none", "removed", "left"}


\* ------------------------------------------------ helper functions on their own
\* The analyzers, the password cracking call, the LLM priority mapping and the
\* drift flattening are functions of their argument. They are run here outside a
\* task: AnalyzerInit draws the argument and the actions apply the function.

\* Priority of openrelik_worker_common.reporting, lowest first.
Priorities == <<"INFO", "LOW", "MEDIUM", "HIGH", "CRITICAL">>

PriorityRank(p) == IF p = "none" THEN 0 ELSE CHOOSE i \in 1..Len(Priorities) : Priorities[i] = p

\* report = Report(): the library default priority is LOW and no summary is set.
NewReport == [priority |-> "LOW", summary |-> "", bullets |-> <<>>]

\* details_section.add_bullet(text + detail, level); n is a number formatted into it.
Bullet(text, level, n, detail) == [text |-> text, level |-> level, n |-> n, detail |-> detail]

\* One line of a configuration file: leading text before the key ("" or
\* white space, or "#" for a comment), the key as written, the value after
\* it, whether the value is inside double quotes, and the substrings that the
\* Jupyter and Tomcat tests look for.
ConfigLine(lead, key, val, quoted, has) ==
    [lead |-> lead, key |-> key, val |-> val, quoted |-> quoted, has |-> has]

\* str.lower() on the keys and values that occur, as re.IGNORECASE compares them.
Lower(s) ==
    CASE s = "PermitRootLogin" -> "permitrootlogin"
      [] s = "PasswordAuthentication" -> "passwordauthentication"
      [] s = "PermitEmptyPasswords" -> "permitemptypasswords"
      [] s = "Yes" -> "yes"
      [] s = "YES" -> "yes"
      [] s = "Bind" -> "bind"
      [] s = "PORT" -> "port"
      [] OTHER -> s

\* `^\s*`: only white space between the start of the line and the key.
Blank(lead) == lead \in {"", "  "}

\* re.search(pattern, config) with a pattern that matches inside one line;
\* hits[i] tells whether the pattern matches line i.
Search(hits) == \E i \in DOMAIN hits : hits[i]

\* re.findall(pattern, config) for a `(^.*text.*)` pattern: the matching lines.
FindAll(hits, config) ==
    LET F[k \in 0..Len(config)] ==
            IF k = 0 THEN <<>>
            ELSE F[k - 1] \o (IF hits[k] THEN <<config[k]>> ELSE <<>>)
    IN F[Len(config)]

\* ---- sshd_analyzer.py
\* r"^\s*PermitRootLogin\s*(yes|prohibit-password|without-password)", I | M
permit_root_login_re(l) ==
    /\ Blank(l.lead)
    /\ Lower(l.key) = "permitrootlogin"
    /\ ~l.quoted
    /\ Lower(l.val) \in {"yes", "prohibit-password", "without-password"}

\* r'^\s*PasswordAuthentication[\s"]*yes', I | M
password_authentication_re(l) ==
    Blank(l.lead) /\ Lower(l.key) = "passwordauthentication" /\ Lower(l.val) = "yes"

\* r'^\s*PermitEmptyPasswords[\s"]*Yes', I | M
permit_empty_passwords_re(l) ==
    Blank(l.lead) /\ Lower(l.key) = "permitemptypasswords" /\ Lower(l.val) = "yes"

\* Variant: one bullet for every line a rule matches.
SshdBulletsPerLine(config) ==
    LET Per(l) == (IF permit_root_login_re(l)
                   THEN <<Bullet("Root login enabled.", 1, 0, <<>>)>> ELSE <<>>)
                  \o (IF password_authentication_re(l)
                      THEN <<Bullet("Password authentication enabled.", 1, 0, <<>>)>>
                      ELSE <<>>)
                  \o (IF permit_empty_passwords_re(l)
                      THEN <<Bullet("Empty passwords permitted.", 1, 0, <<>>)>> ELSE <<>>)
        F[k \in 0..Len(config)] == IF k = 0 THEN <<>> ELSE F[k - 1] \o Per(config[k])
    IN F[Len(config)]

\* The three `if re.search(...)` statements, in their order.
SshdBullets(config) ==
    (IF Search([i \in 1..Len(config) |-> permit_root_login_re(config[i])])
     THEN <<Bullet("Root login enabled.", 1, 0, <<>>)>> ELSE <<>>)
    \o (IF Search([i \in 1..Len(config) |-> password_authentication_re(config[i])])
        THEN <<Bullet("Password authentication enabled.", 1, 0, <<>>)>> ELSE <<>>)
    \o (IF Search([i \in 1..Len(config) |-> permit_empty_passwords_re(config[i])])
        THEN <<Bullet("Empty passwords permitted.", 1, 0, <<>>)>> ELSE <<>>)

SshdLines ==
    { ConfigLine("", "PermitRootLogin", "yes", FALSE, {}),
      ConfigLine("  ", "permitrootlogin", "prohibit-password", FALSE, {}),
      ConfigLine("#", "PermitRootLogin", "yes", FALSE, {}),
      ConfigLine("", "PermitRootLogin", "no", FALSE, {}),
      ConfigLine("", "PasswordAuthentication", "yes", FALSE, {}),
      ConfigLine("", "PermitEmptyPasswords", "Yes", TRUE, {}) }

\* ---- redis_analyzer.py
\* r'^\s*bind[\s"]*0\.0\.0\.0', I | M
bind_everywhere_re(l) == Blank(l.lead) /\ Lower(l.key) = "bind" /\ l.val = "0.0.0.0"

\* r"port\s+6379\b", I: not anchored, so a commented line matches too.
default_port_re(l) == Lower(l.key) = "port" /\ ~l.quoted /\ l.val = "6379"

\* r'^logfile\s+"[^"]+"$', M: case-sensitive, at the start of the line, the
\* value non-empty and in double quotes.
missing_logs_re(l) == l.lead = "" /\ l.key = "logfile" /\ l.quoted /\ l.val # ""

\* The else branch of `if config is None or config == ""`.
RedisBullets(config) ==
    IF config = <<>> THEN <<>>
    ELSE (IF Search([i \in 1..Len(config) |-> bind_everywhere_re(config[i])])
          THEN <<Bullet("Redis listening on every IP", 1, 0, <<>>)>> ELSE <<>>)
         \o (IF Search([i \in 1..Len(config) |-> default_port_re(config[i])])
             THEN <<Bullet("Redis configured with default port (6379)", 1, 0, <<>>)>>
             ELSE <<>>)
         \o (IF ~Search([i \in 1..Len(config) |-> missing_logs_re(config[i])])
             THEN <<Bullet("Log destination not configured", 1, 0, <<>>)>> ELSE <<>>)

RedisLines ==
    { ConfigLine("", "bind", "0.0.0.0", FALSE, {}),
      ConfigLine("", "bind", "127.0.0.1", FALSE, {}),
      ConfigLine("#", "PORT", "6379", FALSE, {}),
      ConfigLine("", "port", "6380", FALSE, {}),
      ConfigLine("", "logfile", "/var/log/redis.log", TRUE, {}),
      ConfigLine("", "logfile", "", TRUE, {}) }

\* ---- jupyter_analyzer.py
\* all(x in line for x in [...])
HasAll(l, S) == S \subseteq l.has

\* The body of `for line in config.split("\n")` with its `continue`s; the
\* value of a line is line.split("=")[1].strip().
JupyterLineBullets(l) ==
    IF HasAll(l, {"disable_check_xsrf", "True"})
    THEN <<Bullet("XSRF protection is disabled.", 1, 0, <<>>)>>
    ELSE IF HasAll(l, {"allow_root", "True"})
    THEN <<Bullet("Juypter Notebook allowed to run as root.", 1, 0, <<>>)>>
    ELSE IF "NotebookApp.password" \in l.has /\ HasAll(l, {"required", "False"})
    THEN <<Bullet("Password is not required to access this Jupyter Notebook.", 1, 0, <<>>)>>
    ELSE (IF /\ "NotebookApp.password" \in l.has
             /\ "required" \notin l.has
             /\ "=" \in l.has
             /\ l.val = "''"
          THEN <<Bullet("There is no password set for this Jupyter Notebook.", 1, 0, <<>>)>>
          ELSE <<>>)
         \o (IF HasAll(l, {"allow_remote_access", "True"})
             THEN <<Bullet("Remote access is enabled on this Jupyter Notebook.", 1, 0, <<>>)>>
             ELSE <<>>)

RECURSIVE JupyterBullets(_)
JupyterBullets(config) ==
    IF config = <<>> THEN <<>>
    ELSE JupyterLineBullets(Head(config)) \o JupyterBullets(Tail(config))

JupyterLines ==
    { ConfigLine("", "c.NotebookApp.disable_check_xsrf", "True", FALSE,
                 {"disable_check_xsrf", "True", "="}),
      ConfigLine("", "c.NotebookApp.allow_root", "True", FALSE, {"allow_root", "True", "="}),
      ConfigLine("", "c.NotebookApp.allow_root", "False", FALSE, {"allow_root", "False", "="}),
      ConfigLine("", "c.NotebookApp.password", "''", FALSE, {"NotebookApp.password", "="}),
      ConfigLine("", "c.NotebookApp.password_required", "False", FALSE,
                 {"NotebookApp.password", "required", "False", "="}),
      ConfigLine("", "c.NotebookApp.allow_remote_access", "True", FALSE,
                 {"allow_remote_access", "True", "="}) }

\* ---- tomcat_analyzer.py
tomcat_user_passwords_re(l) == "password" \in l.has

tomcat_deploy_re(l) == "Deploying web application archive" \in l.has

tomcat_manager_activity_re(l) == "POST /manager/html/upload" \in l.has

tomcat_readonly_re(l) == "<param-name>readonly</param-name>" \in l.has

tomcat_readonly_false_re(l) ==
    /\ "<param-name>readonly</param-name>" \in l.has
    /\ "<param-value>false</param-value>" \in l.has

\* One bullet per matching line, the prefix followed by the stripped line.
EntryBullets(prefix, entries) ==
    [k \in 1..Len(entries) |-> Bullet(prefix, 1, 0, <<entries[k].key, entries[k].val>>)]

\* The three findall loops and the read-only test.
TomcatBullets(config) ==
    LET lines == 1..Len(config)
    IN EntryBullets("tomcat user: ",
                    FindAll([i \in lines |-> tomcat_user_passwords_re(config[i])], config))
       \o EntryBullets("Tomcat App Deployed: ",
                       FindAll([i \in lines |-> tomcat_deploy_re(config[i])], config))
       \o EntryBullets("Tomcat Management: ",
                       FindAll([i \in lines |-> tomcat_manager_activity_re(config[i])],
                               config))
       \o (IF /\ Search([i \in lines |-> tomcat_readonly_re(config[i])])
              /\ Search([i \in lines |-> tomcat_readonly_false_re(config[i])])
           THEN <<Bullet("Tomcat servlet IS NOT read-only", 1, 0, <<>>)>> ELSE <<>>)

TomcatLines ==
    { ConfigLine("", "<user", "password=secret", FALSE, {"password"}),
      ConfigLine("", "INFO", "Deploying web application archive app.war", FALSE,
                 {"Deploying web application archive"}),
      ConfigLine("", "POST /manager/html/upload", "200", FALSE,
                 {"POST /manager/html/upload"}),
      ConfigLine("", "<param-name>readonly</param-name>",
                 "<param-value>false</param-value>", FALSE,
                 {"<param-name>readonly</param-name>", "<param-value>false</param-value>"}),
      ConfigLine("", "<param-name>readonly</param-name>",
                 "<param-value>true</param-value>", FALSE,
                 {"<param-name>readonly</param-name>"}),
      ConfigLine("", "<Connector", "port=8080", FALSE, {}) }

\* ---- the four analyzers that count misconfigurations
CountingAnalyzers == {"sshd", "redis", "jupyter", "tomcat"}

ConfigLines(u) ==
    CASE u = "sshd" -> SshdLines
      [] u = "redis" -> RedisLines
      [] u = "jupyter" -> JupyterLines
      [] u = "tomcat" -> TomcatLines

\* The bullets an analyzer adds; each one increments num_misconfigs.
ConfigBullets(u, config) ==
    CASE u = "sshd" -> SshdBullets(config)
      [] u = "redis" -> RedisBullets(config)
      [] u = "jupyter" -> JupyterBullets(config)
      [] u = "tomcat" -> TomcatBullets(config)

InsecureSummary(u) ==
    CASE u = "sshd" -> "Insecure SSHD configuration found"
      [] u = "redis" -> "Insecure Redis configuration found"
      [] u = "jupyter" -> "Insecure Jupyter Notebook configuration found"
      [] u = "tomcat" -> "Tomcat analysis found misconfigs"

CleanSummary(u) ==
    CASE u = "sshd" -> "No issues found in SSH configuration"
      [] u = "jupyter" -> "No issues found in Jupyter Notebook configuration."
      [] u = "tomcat" -> "No issues found in Tomcat configuration"

\* Variant: HIGH for a single misconfiguration only.
ConcludeSingle(u, config, r) ==
    IF Len(r.bullets) = 1
    THEN [r EXCEPT !.summary = InsecureSummary(u), !.priority = "HIGH"]
    ELSE [r EXCEPT !.summary = "No issues", !.priority = "LOW"]

\* The end of analyze_config: `if num_misconfigs > 0:` sets the summary and
\* HIGH; otherwise sshd, jupyter and tomcat set their summary and LOW, while
\* redis sets a summary and LOW for the empty config only.
Conclude(u, config, r) ==
    IF u = "redis" /\ config = <<>>
    THEN [r EXCEPT !.summary = "No Redis config found", !.priority = "LOW"]
    ELSE IF Len(r.bullets) > 0
    THEN [r EXCEPT !.summary = InsecureSummary(u), !.priority = "HIGH"]
    ELSE IF u = "redis" THEN r
    ELSE [r EXCEPT !.summary = CleanSummary(u), !.priority = "LOW"]

\* analyze_config as a function of the file content.
AnalyzeConfig(u, config) ==
    Conclude(u, config, [NewReport EXCEPT !.bullets = ConfigBullets(u, config)])

\* ---- jenkins_analyzer.py and the password cracking call
\* The text of the <version> tag of a config, or "absent".
VersionTags == {"absent", "", "Unknown", "1.29.2"}

\* A Jenkins config: the first <version>, <fullName> and <passwordHash> tags.
JenkinsConfigs ==
    [version : VersionTags, fullName : {"absent", "alice"},
     passwordHash : {"absent", "hashA", "hashE"}]

\* re.search("<version>(.*)</version>", config): group(1) or None.
extract_jenkins_version(config) ==
    IF config.version = "absent" THEN "None" ELSE config.version

\* One (username, hash) pair when both tags are found.
extract_jenkins_credentials(config) ==
    IF config.fullName # "absent" /\ config.passwordHash # "absent"
    THEN <<[user |-> config.fullName, hash |-> config.passwordHash]>>
    ELSE <<>>

\* analyze_config: `if extracted_version:` keeps None for an empty tag, and
\* the call analyze_jenkins(version, credentials, timeout=None).
JenkinsCall(config) ==
    [version |-> IF extract_jenkins_version(config) \in {"None", ""}
                 THEN "None" ELSE extract_jenkins_version(config),
     credentials |-> extract_jenkins_credentials(config),
     timeout |-> "None"]

\* Variant: the first username listed for a hash is kept.
FirstUserRegistry(credentials) ==
    [h \in {credentials[i].hash : i \in 1..Len(credentials)} |->
        credentials[CHOOSE i \in 1..Len(credentials) :
                        /\ credentials[i].hash = h
                        /\ \A j \in 1..(i - 1) : credentials[j].hash # h].user]

\* credentials_registry = {hash: username for username, hash in credentials}:
\* a later pair replaces an earlier one with the same hash.
credentials_registry(credentials) ==
    [h \in {credentials[i].hash : i \in 1..Len(credentials)} |->
        credentials[CHOOSE i \in 1..Len(credentials) :
                        /\ credentials[i].hash = h
                        /\ \A j \in (i + 1)..Len(credentials) : credentials[j].hash # h].user]

\* The plaintext the cracker writes for a hash; "" is the empty password.
Plain(h) ==
    CASE h = "hashA" -> "pw123"
      [] h = "hashB" -> "letmein"
      [] h = "hashE" -> ""

\* Reading the pot file: line.rsplit(":", 1), and `if plaintext:` drops the
\* pairs whose plaintext is empty.
Harvest(pot) ==
    LET F[k \in 0..Len(pot)] ==
            IF k = 0 THEN <<>>
            ELSE F[k - 1] \o (IF Plain(pot[k]) # ""
                              THEN <<[hash |-> pot[k], plaintext |-> Plain(pot[k])]>>
                              ELSE <<>>)
    IN F[Len(pot)]

\* The level-2 bullets of the weak passwords, one per cracked pair.
WeakBullets(registry, weak) ==
    [k \in 1..Len(weak) |->
        Bullet("User with password", 2, 0, <<registry[weak[k].hash], weak[k].plaintext>>)]

\* Variant: MEDIUM whenever a version was passed or credentials exist.
JenkinsReportAnyVersion(version, registry, weak) ==
    LET v == IF version = "None" THEN "Unknown" ELSE version
        head == <<Bullet("Jenkins version: ", 1, 0, <<v>>)>>
    IN IF weak # <<>>
       THEN [priority |-> "CRITICAL", summary |-> "Jenkins analysis found potential issues",
             bullets |-> head \o <<Bullet("weak password(s) found:", 1, Len(weak), <<>>)>>
                         \o WeakBullets(registry, weak)]
       ELSE IF DOMAIN registry # {} \/ version # "None"
       THEN [priority |-> "MEDIUM", summary |-> "Jenkins version found, no issues detected",
             bullets |-> head]
       ELSE [priority |-> "LOW", summary |-> "No Jenkins instance found", bullets |-> head]

\* analyze_jenkins after the cracking call: the version bullet, then CRITICAL
\* with the weak passwords, MEDIUM, or LOW.
JenkinsReport(version, registry, weak) ==
    LET v == IF version = "None" THEN "Unknown" ELSE version
        head == <<Bullet("Jenkins version: ", 1, 0, <<v>>)>>
    IN IF weak # <<>>
       THEN [priority |-> "CRITICAL", summary |-> "Jenkins analysis found potential issues",
             bullets |-> head \o <<Bullet("weak password(s) found:", 1, Len(weak), <<>>)>>
                         \o WeakBullets(registry, weak)]
       ELSE IF DOMAIN registry # {} \/ v # "Unknown"
       THEN [priority |-> "MEDIUM", summary |-> "Jenkins version found, no issues detected",
             bullets |-> head]
       ELSE [priority |-> "LOW", summary |-> "No Jenkins instance found", bullets |-> head]

\* ---- llm_analyzer.py: the mapping of the model's reply to a Priority
LowerLetters ==
    <<"a", "b", "c", "d", "e", "f", "g", "h", "i", "l", "m", "n", "o", "r", "t", "u", "w", "y">>

UpperLetters ==
    <<"A", "B", "C", "D", "E", "F", "G", "H", "I", "L", "M", "N", "O", "R", "T", "U", "W", "Y">>

\* str.upper(), one character at a time.
UpperChar(c) ==
    IF \E i \in 1..Len(LowerLetters) : LowerLetters[i] = c
    THEN UpperLetters[CHOOSE i \in 1..Len(LowerLetters) : LowerLetters[i] = c]
    ELSE c

Upper(s) == [k \in 1..Len(s) |-> UpperChar(s[k])]

\* `token in text` on strings: token occurs as a substring.
Contains(text, token) ==
    \E i \in 1..(Len(text) - Len(token) + 1) : SubSeq(text, i, i + Len(token) - 1) = token

Token(p) ==
    CASE p = "CRITICAL" -> <<"C", "R", "I", "T", "I", "C", "A", "L">>
      [] p = "HIGH" -> <<"H", "I", "G", "H">>
      [] p = "MEDIUM" -> <<"M", "E", "D", "I", "U", "M">>
      [] p = "LOW" -> <<"L", "O", "W">>
      [] p = "INFO" -> <<"I", "N", "F", "O">>

\* Variant: the reply must be the token itself.
PriorityOfExactReply(reply) ==
    IF Upper(reply) = Token("CRITICAL") THEN "CRITICAL"
    ELSE IF Upper(reply) = Token("HIGH") THEN "HIGH"
    ELSE IF Upper(reply) = Token("MEDIUM") THEN "MEDIUM"
    ELSE IF Upper(reply) = Token("LOW") THEN "LOW"
    ELSE "INFO"

\* The if / elif chain on priority.upper(): the first of CRITICAL, HIGH,
\* MEDIUM, LOW found in the reply, INFO otherwise.
PriorityOfReply(reply) ==
    IF Contains(Upper(reply), Token("CRITICAL")) THEN "CRITICAL"
    ELSE IF Contains(Upper(reply), Token("HIGH")) THEN "HIGH"
    ELSE IF Contains(Upper(reply), Token("MEDIUM")) THEN "MEDIUM"
    ELSE IF Contains(Upper(reply), Token("LOW")) THEN "LOW"
    ELSE "INFO"

\* Replies of llm.chat(PRIORITY_PROMPT): the five tokens in some letter case,
\* words containing a token, sentences naming one or two, and other text.
Replies ==
    { <<"c", "r", "i", "t", "i", "c", "a", "l">>,
      <<"H", "i", "g", "h">>,
      <<"M", "E", "D", "I", "U", "M">>,
      <<"l", "o", "w">>,
      <<"I", "n", "f", "o">>,
      <<"B", "E", "L", "O", "W">>,
      <<"h", "i", "g", "h", "l", "y">>,
      <<"l", "o", "w", " ", "o", "r", " ", "h", "i", "g", "h">>,
      <<"i", "t", " ", "i", "s", " ", "M", "e", "d", "i", "u", "m">>,
      <<"n", "o", "n", "e">>,
      <<>> }

\* ---- container_drift.py: flattening of the container-explorer drift output
\* JSON values of the AddedOrModified and InaccessibleFiles keys. n is the
\* number for "num" and the length for "str", "obj" and "list".
JsonAbsent == [t |-> "absent", n |-> 0, v |-> <<>>]

JsonNull == [t |-> "null", n |-> 0, v |-> <<>>]

JsonScalar(t, n) == [t |-> t, n |-> n, v |-> <<>>]

JsonList(v) == [t |-> "list", n |-> Len(v), v |-> v]

\* Truth value of a Python object; item.get(key) of an absent key is None.
Truthy(x) == x.t \notin {"absent", "null"} /\ x.n # 0

\* isinstance(x, list)
IsList(x) == x.t = "list"

MetadataFields ==
    <<"file_name", "full_path", "file_size", "file_type", "file_modified",
      "file_accessed", "file_changed", "file_birth", "file_sha256">>

\* dict.get(key, default)
Get(d, key, default) == IF key \in DOMAIN d THEN d[key] ELSE default

\* _create_drift_record: file_info.get(field, "-") for every metadata field;
\* full_path is written under the key file_path.
create_drift_record(container_id, container_type, drift_status, file_info) ==
    [container_id |-> container_id,
     container_type |-> container_type,
     drift_status |-> drift_status,
     file_name |-> Get(file_info, "file_name", "-"),
     file_path |-> Get(file_info, "full_path", "-"),
     file_size |-> Get(file_info, "file_size", "-"),
     file_type |-> Get(file_info, "file_type", "-"),
     file_modified |-> Get(file_info, "file_modified", "-"),
     file_accessed |-> Get(file_info, "file_accessed", "-"),
     file_changed |-> Get(file_info, "file_changed", "-"),
     file_birth |-> Get(file_info, "file_birth", "-"),
     file_sha256 |-> Get(file_info, "file_sha256", "-")]

\* The records of one key of one item: none unless the value is a non-empty list.
KeyRecords(item, key, drift_status) ==
    LET x == Get(item, key, JsonAbsent)
    IN IF Truthy(x) /\ IsList(x)
       THEN [k \in 1..Len(x.v) |->
                create_drift_record(Get(item, "ContainerID", ""),
                                    Get(item, "ContainerType", ""), drift_status, x.v[k])]
       ELSE <<>>

\* Variant: the deleted files of an item come before the added ones.
ItemRecordsDeletedFirst(item) ==
    KeyRecords(item, "InaccessibleFiles", "File deleted")
    \o KeyRecords(item, "AddedOrModified", "File added or modified")

\* One iteration of `for item in data:`.
ItemRecords(item) ==
    KeyRecords(item, "AddedOrModified", "File added or modified")
    \o KeyRecords(item, "InaccessibleFiles", "File deleted")

RECURSIVE flattern_container_drift_data(_)
flattern_container_drift_data(data) ==
    IF data = <<>> THEN <<>>
    ELSE ItemRecords(Head(data)) \o flattern_container_drift_data(Tail(data))

FullFileInfo ==
    [file_name |-> "malware.bin", full_path |-> "/root/malware.bin", file_size |-> "1125408",
     file_type |-> "executable", file_modified |-> "t1", file_accessed |-> "t2",
     file_changed |-> "t3", file_birth |-> "t4", file_sha256 |-> "5fd7"]

PartialFileInfo ==
    [file_name |-> "btmp", full_path |-> "/var/log/btmp", file_size |-> "0",
     file_modified |-> "t1", file_accessed |-> "t2", file_changed |-> "t3",
     file_birth |-> "t4"]

NameOnlyFileInfo == [file_name |-> "x"]

\* Container items of the drift output.
DriftItems ==
    { [ContainerID |-> "c1", ContainerType |-> "docker",
       AddedOrModified |-> JsonList(<<FullFileInfo>>),
       InaccessibleFiles |-> JsonList(<<PartialFileInfo>>)],
      [ContainerID |-> "c2", ContainerType |-> "containerd",
       InaccessibleFiles |-> JsonList(<<PartialFileInfo, NameOnlyFileInfo>>)],
      [ContainerID |-> "c3", ContainerType |-> "docker",
       AddedOrModified |-> JsonNull, InaccessibleFiles |-> JsonList(<<>>)],
      [ContainerID |-> "c4", ContainerType |-> "docker",
       AddedOrModified |-> JsonScalar("str", 3), InaccessibleFiles |-> JsonScalar("num", 7)],
      [ContainerType |-> "containerd",
       AddedOrModified |-> JsonScalar("obj", 1),
       InaccessibleFiles |-> JsonList(<<FullFileInfo>>)] }

\* ---- the Yara task: from the lines of fraken output to the report
\* Input file dictionaries as the Yara task reads them; one has no "path" key.
YaraInputA == [path |-> "/in/a.bin", uuid |-> "u1", display_name |-> "a.bin"]

YaraInputB == [uuid |-> "u2", display_name |-> "b.bin"]

YaraInputLists == {<<>>, <<YaraInputA>>, <<YaraInputB, YaraInputA>>}

\* Elements of the JSON arrays fraken writes: a match on an input file given
\* by its path, and one on a file below a mountpoint.
FrakenMatches ==
    { [ImagePath |-> "/in/a.bin", SHA256 |-> "5fd7", Signature |-> "webshell",
       Description |-> "PHP webshell", Reference |-> "internal", Score |-> 75],
      [ImagePath |-> "/mnt/abc/evil", SHA256 |-> "09ab", Signature |-> "miner",
       Description |-> "coin miner", Reference |-> "-", Score |-> 100] }

\* input_files_map: keyed by "path", else "uuid", else "UNKNOWN FILE"; a later
\* input with the same key replaces an earlier one.
RECURSIVE input_files_map(_)
input_files_map(files) ==
    IF files = <<>> THEN <<>>
    ELSE LET f == files[Len(files)]
             key == IF "path" \in DOMAIN f THEN f.path
                    ELSE IF "uuid" \in DOMAIN f THEN f.uuid ELSE "UNKNOWN FILE"
             rest == input_files_map(SubSeq(files, 1, Len(files) - 1))
         IN [k \in DOMAIN rest \cup {key} |->
                IF k = key THEN Get(f, "display_name", "UNKNOWN FILE NAME") ELSE rest[k]]

\* str(n) of a natural number: its decimal digits.
Digits == <<"0", "1", "2", "3", "4", "5", "6", "7", "8", "9">>

RECURSIVE Str(_)
Str(n) == IF n < 10 THEN <<Digits[n + 1]>> ELSE Str(n \div 10) \o <<Digits[(n % 10) + 1]>>

\* Variant: the file path of a match is always the ImagePath as reported.
YaraMatchRawPath(map, match) ==
    [filepath |-> match.ImagePath, hash |-> match.SHA256, rule |-> match.Signature,
     desc |-> match.Description, ref |-> match.Reference, score |-> match.Score]

\* YaraMatch(filepath=input_files_map.get(match["ImagePath"], match["ImagePath"]), ...)
YaraMatch(map, match) ==
    [filepath |-> Get(map, match.ImagePath, match.ImagePath), hash |-> match.SHA256,
     rule |-> match.Signature, desc |-> match.Description, ref |-> match.Reference,
     score |-> match.Score]

\* all_matches after `for matches_list in matches_list_list: for match in matches:`.
RECURSIVE all_matches(_, _)
all_matches(map, lines) ==
    IF lines = <<>> THEN <<>>
    ELSE [k \in 1..Len(Head(lines)) |-> YaraMatch(map, Head(lines)[k])]
         \o all_matches(map, Tail(lines))

\* generate_report_from_matches: the priority, and the table with one row per match.
generate_report_from_matches(ms) ==
    [priority |-> IF ms # <<>> THEN "CRITICAL" ELSE NewReport.priority,
     summary |-> NewReport.summary,
     bullets |-> <<>>,
     table |-> [columns |-> <<"filepath", "hash", "rule", "desc", "ref", "score">>,
                rows |-> [k \in 1..Len(ms) |->
                             <<ms[k].filepath, ms[k].hash, ms[k].rule, ms[k].desc,
                               ms[k].ref, Str(ms[k].score)>>]]]

\* ---- the specification of the helper functions
Units ==
    CountingAnalyzers
    \cup {"jenkins", "analyze_jenkins", "llm_analyze_artifact", "flattern_container_drift_data",
          "generate_report_from_matches"}

\* The worker a function belongs to.
UnitWorker(u) ==
    CASE u \in CountingAnalyzers -> u
      [] u \in {"jenkins", "analyze_jenkins"} -> "jenkins"
      [] u = "llm_analyze_artifact" -> "llm"
      [] u = "flattern_container_drift_data" -> "container_drift"
      [] u = "generate_report_from_matches" -> "yara"

NoConfig == [version |-> "absent", fullName |-> "absent", passwordHash |-> "absent"]

NoCall == [version |-> "None", credentials |-> <<>>, timeout |-> "None"]

\* (username, hash) pairs passed to analyze_jenkins.
Credentials == [user : {"alice", "bob"}, hash : {"hashA", "hashB"}]

\* The arguments a function is called with. analyze_jenkins called directly
\* takes its default timeout.
UnitArgs(u) ==
    CASE u \in CountingAnalyzers -> SeqsUpTo(ConfigLines(u), MaxConfigLines)
      [] u = "jenkins" -> [config : JenkinsConfigs, call : {NoCall}]
      [] u = "analyze_jenkins" ->
            [config : {NoConfig},
             call : [version : {"None", "1.29.2"},
                     credentials : SeqsUpTo(Credentials, MaxCredentials),
                     timeout : {DefaultTimeout}]]
      [] u = "llm_analyze_artifact" -> Replies
      [] u = "flattern_container_drift_data" -> SeqsUpTo(DriftItems, MaxItems)
      [] u = "generate_report_from_matches" ->
            [input_files : YaraInputLists,
             lines : SeqsUpTo(SeqsUpTo(FrakenMatches, MaxMatches), MaxLines)]

taskVars ==
    <<worker, inputs, mountImages, taskConfig, pc, idx, bd, dev, disksMounted, folders, scanned,
      matches, nmounts, mp, proc, events, visited, spawned, outputFiles, fileReports, sections,
      strings, faults, pending, outcome, exc, result, tempDir>>

AnalyzerInit ==
    /\ unit \in Units
    /\ arg \in UnitArgs(unit)
    /\ upc = (IF unit = "analyze_jenkins" THEN "analyze" ELSE "call")
    /\ report = NoReport
    /\ ret = <<>>
    /\ child = NoChild
    /\ worker = UnitWorker(unit)
    /\ inputs = <<>>
    /\ mountImages = FALSE
    /\ taskConfig = NoTaskConfig
    /\ TaskFresh
    /\ HelpersIdle

\* analyze_config of sshd, redis, jupyter and tomcat: read the file and
\* create the Report.
AnalyzerOpen ==
    /\ unit \in CountingAnalyzers
    /\ upc = "call"
    /\ report' = NewReport
    /\ upc' = "rules"
    /\ UNCHANGED <<taskVars, helperVars, unit, arg, ret, child>>

\* The rule tests, each match adding a bullet and incrementing num_misconfigs.
AnalyzerRules ==
    /\ unit \in CountingAnalyzers
    /\ upc = "rules"
    /\ report' = [report EXCEPT !.bullets = ConfigBullets(unit, arg)]
    /\ upc' = "conclude"
    /\ UNCHANGED <<taskVars, helperVars, unit, arg, ret, child>>

\* The final `if num_misconfigs > 0:` and the return.
AnalyzerConclude ==
    /\ unit \in CountingAnalyzers
    /\ upc = "conclude"
    /\ report' = Conclude(unit, arg, report)
    /\ upc' = "returned"
    /\ UNCHANGED <<taskVars, helperVars, unit, arg, ret, child>>

\* jenkins_analyzer.analyze_config up to its call of analyze_jenkins.
JenkinsAnalyzeConfig ==
    /\ unit = "jenkins"
    /\ upc = "call"
    /\ arg' = [arg EXCEPT !.call = JenkinsCall(arg.config)]
    /\ upc' = "analyze"
    /\ UNCHANGED <<taskVars, helperVars, unit, report, ret, child>>

\* analyze_jenkins: report = Report() and the registry, before the cracking call.
JenkinsStart ==
    /\ unit \in {"jenkins", "analyze_jenkins"}
    /\ upc = "analyze"
    /\ report' = NewReport
    /\ upc' = "popen"
    /\ UNCHANGED <<taskVars, helperVars, unit, arg, ret, child>>

\* bruteforce_password_hashes up to child.communicate(): a missing password
\* list or an OSError of Popen raises RuntimeError; otherwise the process runs
\* and threading.Timer(timeout, child.terminate) is started.
BruteforcePopen ==
    /\ upc = "popen"
    /\ \E ok \in BOOLEAN :
          IF ok
          THEN /\ child' = [alive |-> TRUE, timer |-> "armed",
                            interval |-> arg.call.timeout, pot |-> <<>>]
               /\ upc' = "communicate"
          ELSE /\ upc' = "raised"
               /\ UNCHANGED child
    /\ UNCHANGED <<taskVars, helperVars, unit, arg, report, ret>>

\* The cracking process finds the password of one more hash and appends it to
\* the pot file.
ChildCrack ==
    /\ upc = "communicate"
    /\ child.alive
    /\ \E h \in DOMAIN credentials_registry(arg.call.credentials) \ Range(child.pot) :
          child' = [child EXCEPT !.pot = Append(@, h)]
    /\ UNCHANGED <<taskVars, helperVars, unit, arg, upc, report, ret>>

\* The cracking process exits on its own.
ChildExit ==
    /\ upc = "communicate"
    /\ child.alive
    /\ child' = [child EXCEPT !.alive = FALSE]
    /\ UNCHANGED <<taskVars, helperVars, unit, arg, upc, report, ret>>

\* The timer thread: Timer.run() waits `interval` seconds, or until it is
\* cancelled when the interval is None, and then calls child.terminate().
TimerFire ==
    /\ upc = "communicate"
    /\ child.timer = "armed"
    /\ child.interval # "None"
    /\ child' = [child EXCEPT !.alive = FALSE, !.timer = "fired"]
    /\ UNCHANGED <<taskVars, helperVars, unit, arg, upc, report, ret>>

\* child.communicate() returns once the process has ended; the timer is
\* cancelled if still alive, the pot file is read and removed.
BruteforceHarvest ==
    /\ upc = "communicate"
    /\ ~child.alive
    /\ ret' = Harvest(child.pot)
    /\ child' = [child EXCEPT !.timer = IF @ = "armed" THEN "cancelled" ELSE @,
                              !.pot = <<>>]
    /\ upc' = "conclude"
    /\ UNCHANGED <<taskVars, helperVars, unit, arg, report>>

\* analyze_jenkins after the cracking call.
JenkinsConclude ==
    /\ unit \in {"jenkins", "analyze_jenkins"}
    /\ upc = "conclude"
    /\ report' = JenkinsReport(arg.call.version, credentials_registry(arg.call.credentials),
                               ret)
    /\ upc' = "returned"
    /\ UNCHANGED <<taskVars, helperVars, unit, arg, ret, child>>

\* llm_analyze_artifact maps the reply; analyze_text_content stores the
\* priority and the summary in a new Report.
LlmPriority ==
    /\ unit = "llm_analyze_artifact"
    /\ upc = "call"
    /\ report' = [NewReport EXCEPT !.priority = PriorityOfReply(arg),
                                   !.summary = "llm summary"]
    /\ upc' = "returned"
    /\ UNCHANGED <<taskVars, helperVars, unit, arg, ret, child>>

\* _flattern_container_drift_data(data)
FlatternData ==
    /\ unit = "flattern_container_drift_data"
    /\ upc = "call"
    /\ ret' = flattern_container_drift_data(arg)
    /\ upc' = "returned"
    /\ UNCHANGED <<taskVars, helperVars, unit, arg, report, child>>

\* The Yara task after the scan: the lines of the output file are parsed
\* into all_matches.
YaraReadMatches ==
    /\ unit = "generate_report_from_matches"
    /\ upc = "call"
    /\ ret' = all_matches(input_files_map(arg.input_files), arg.lines)
    /\ upc' = "generate"
    /\ UNCHANGED <<taskVars, helperVars, unit, arg, report, child>>

\* report = generate_report_from_matches(all_matches)
YaraGenerateReport ==
    /\ unit = "generate_report_from_matches"
    /\ upc = "generate"
    /\ report' = generate_report_from_matches(ret)
    /\ upc' = "returned"
    /\ UNCHANGED <<taskVars, helperVars, unit, arg, ret, child>>

AnalyzerNext ==
    \/ AnalyzerOpen
    \/ AnalyzerRules
    \/ AnalyzerConclude
    \/ JenkinsAnalyzeConfig
    \/ JenkinsStart
    \/ BruteforcePopen
    \/ ChildCrack
    \/ ChildExit
    \/ TimerFire
    \/ BruteforceHarvest
    \/ JenkinsConclude
    \/ LlmPriority
    \/ FlatternData
    \/ YaraReadMatches
    \/ YaraGenerateReport

AnalyzerSpec == AnalyzerInit /\ [][AnalyzerNext]_vars

UnitTypeOK ==
    /\ unit \in Units
    /\ upc \in {"call", "rules", "analyze", "popen", "communicate", "conclude", "generate",
                "returned", "raised"}
    /\ report.priority \in {"none"} \cup Range(Priorities)
    /\ child.timer \in {"none", "armed", "fired", "cancelled"}


\* ------------------------------------------- container_drift, step by step
\* The container_drift task with run_container_drift expanded: the two
\* container-explorer runs, the drift output files and the task report.

\* What container-explorer writes for containerd (3 files) and for Docker (4 files).
ContainerdDriftOutput ==
    << [ContainerID |-> "c2", ContainerType |-> "containerd",
        AddedOrModified |-> JsonList(<<FullFileInfo>>),
        InaccessibleFiles |-> JsonList(<<PartialFileInfo, NameOnlyFileInfo>>)] >>

DockerDriftOutput ==
    << [ContainerID |-> "c1", ContainerType |-> "docker",
        AddedOrModified |-> JsonList(<<FullFileInfo, PartialFileInfo>>),
        InaccessibleFiles |-> JsonNull],
       [ContainerID |-> "c5", ContainerType |-> "docker",
        InaccessibleFiles |-> JsonList(<<PartialFileInfo, NameOnlyFileInfo>>)] >>

\* The output file after a run: not there, not JSON, the JSON value null, or
\* the list of container items.
ExplorerFiles(tool) ==
    { [kind |-> "missing", data |-> <<>>],
      [kind |-> "malformed", data |-> <<>>],
      [kind |-> "null", data |-> <<>>],
      [kind |-> "json",
       data |-> IF tool = "containerd" THEN ContainerdDriftOutput ELSE DockerDriftOutput] }

\* _get_container_drift_data: FileNotFoundError and JSONDecodeError give [],
\* and so does null through `if not data`.
get_container_drift_data(file) ==
    IF file.kind = "json" THEN flattern_container_drift_data(file.data) ELSE <<>>

\* Variant: the output file is read whatever the exit code.
run_container_explorer_any_exit(returncode, file) ==
    [read |-> TRUE, records |-> get_container_drift_data(file)]

\* _run_container_explorer after subprocess.run returned: a non-zero return
\* code gives [] and the output file is not opened.
run_container_explorer(returncode, file) ==
    IF returncode # 0 THEN [read |-> FALSE, records |-> <<>>]
    ELSE [read |-> TRUE, records |-> get_container_drift_data(file)]

\* `if data: drift_data.extend(data)`
Extend(drift_data, data) == drift_data \o data

\* _create_drift_output_files: nothing without data, else the JSON file and
\* then the CSV file, each holding the records.
create_drift_output_files(data) ==
    IF data = <<>> THEN <<>>
    ELSE << [display_name |-> "container_drift", extension |-> "json", written |-> Len(data)],
            [display_name |-> "container_drift", extension |-> "csv", written |-> Len(data)] >>

\* Variant: the records of every output file are counted.
create_task_report_every_file(output_files) ==
    LET Count[k \in 0..Len(output_files)] ==
            IF k = 0 THEN 0 ELSE Count[k - 1] + output_files[k].written
    IN << Bullet("output files created", 1, Len(output_files), <<>>),
          Bullet("files added, modified, or deleted", 1, Count[Len(output_files)], <<>>) >>

\* create_task_report: the number of output files, and the records read back
\* from the files whose path contains ".json".
create_task_report(output_files) ==
    LET Count[k \in 0..Len(output_files)] ==
            IF k = 0 THEN 0
            ELSE Count[k - 1] + (IF output_files[k].extension = "json"
                                 THEN output_files[k].written ELSE 0)
    IN << Bullet("output files created", 1, Len(output_files), <<>>),
          Bullet("files added, modified, or deleted", 1, Count[Len(output_files)], <<>>) >>

\* The variables no step of this section changes.
driftIdle ==
    <<cfgVars, yaraVars, reportVars, bd, dev, nmounts, proc, events, strings, unit, arg, upc,
      report, child, ctr, jobs, potFile>>

\* The head of `for input_file in input_files:`; after the last input
\* create_task_report(output_files) and the task result.
DriftLoop ==
    /\ worker = "container_drift"
    /\ pc = "loop"
    /\ IF idx > Len(inputs)
       THEN /\ outcome' = "result"
            /\ exc' = "none"
            /\ result' = [report |-> TRUE, text |-> create_task_report(outputFiles),
                          taskFiles |-> {"log"}]
            /\ pc' = "done"
            /\ UNCHANGED <<idx, visited>>
       ELSE /\ visited' = visited \cup {idx}
            /\ IF ~HasPath(inputs[idx])
               THEN /\ idx' = idx + 1
                    /\ pc' = "loop"
               ELSE /\ pc' = "try"
                    /\ UNCHANGED idx
            /\ UNCHANGED endVars
    /\ UNCHANGED <<driftIdle, mp, spawned, outputFiles, faults, pending, tempDir, ret, run>>

\* One iteration of `for mountpoint in mountpoints:` up to the call of
\* run_container_drift, which makes its temporary directory.
DriftMountpoint ==
    /\ worker = "container_drift"
    /\ pc = "mountpoints"
    /\ IF mp > nmounts
       THEN /\ pc' = "finally"
            /\ UNCHANGED <<mp, tempDir>>
       ELSE \E root \in BOOLEAN :
               IF ~root
               THEN UNCHANGED <<pc, tempDir>> /\ mp' = mp + 1
               ELSE /\ tempDir' = "exists"
                    /\ pc' = "containerd"
                    /\ UNCHANGED mp
    /\ UNCHANGED <<driftIdle, idx, visited, spawned, outputFiles, faults, pending, endVars, ret,
                   run>>

\* _run_containerd_drift or _run_docker_drift: subprocess.run raises OSError
\* when the binary cannot be executed, which nothing catches before the
\* finally block of the task; otherwise the tool exits with a return code
\* and leaves its output file.
RunExplorer(tool, from, to) ==
    /\ worker = "container_drift"
    /\ pc = from
    /\ \E o \in {"oserror", "exit"} :
          \/ /\ o = "oserror"
             /\ faults' = faults \cup {"other"}
             /\ pending' = "OSError"
             /\ pc' = "finally"
             /\ UNCHANGED <<ret, run, spawned>>
          \/ /\ o = "exit"
             /\ \E returncode \in {0, 1}, file \in ExplorerFiles(tool) :
                   LET out == run_container_explorer(returncode, file)
                   IN /\ run' = [run EXCEPT ![tool] = [ran |-> TRUE, exit |-> returncode,
                                                     file |-> file, read |-> out.read]]
                      /\ ret' = Extend(ret, out.records)
                      /\ faults' = IF returncode # 0 THEN faults \cup {"nonzero"} ELSE faults
             /\ spawned' = spawned \cup {idx}
             /\ pc' = to
             /\ UNCHANGED pending
    /\ UNCHANGED <<driftIdle, idx, mp, visited, outputFiles, endVars, tempDir>>

DriftContainerd == RunExplorer("containerd", "containerd", "docker")

DriftDocker == RunExplorer("docker", "docker", "rmtree")

\* The end of run_container_drift (rmtree, return drift_data) and the rest
\* of the loop body: `if not drift_data: continue`, else the output files.
DriftReturn ==
    /\ worker = "container_drift"
    /\ pc = "rmtree"
    /\ tempDir' = "removed"
    /\ outputFiles' = outputFiles \o create_drift_output_files(ret)
    /\ ret' = <<>>
    /\ run' = NoRuns
    /\ mp' = mp + 1
    /\ pc' = "mountpoints"
    /\ UNCHANGED <<driftIdle, idx, visited, spawned, faults, pending, endVars>>

DriftInit == Init /\ worker = "container_drift" /\ Len(inputs) <= MaxDriftDisks

DriftNext ==
    \/ ContainerStart
    \/ DriftLoop
    \/ ContainerMount
    \/ DriftMountpoint
    \/ DriftContainerd
    \/ DriftDocker
    \/ DriftReturn
    \/ ContainerFinally

DriftSpec == DriftInit /\ [][DriftNext]_vars

DriftTypeOK ==
    /\ pc \in {"start", "loop", "try", "mountpoints", "containerd", "docker", "rmtree",
               "finally", "done"}
    /\ tempDir \in {"none", "exists", "removed"}
    /\ \A k \in 1..Len(outputFiles) : outputFiles[k].extension \in {"json", "csv"}

\* ------------------------------- run_container_file_extraction, step by step
\* The function with its two loops expanded: the containers requested, and
\* inside _extract_file_and_directory the paths requested. The disk is the
\* environment: the containers container-explorer lists on it, what each
\* requested path is under a container mountpoint, and whether a mount or an
\* umount succeeds.

ContainerIds == {"c1", "c2"}

\* A requested path under the container mountpoint: a regular file, a
\* directory, a path that does not exist in an existing directory ("missing"),
\* a path whose parent directory does not exist either ("orphan"), or
\* something that is neither a file nor a directory ("special").
PathKinds == {"file", "dir", "missing", "orphan", "special"}

RequestedPaths == [path : {"/etc/app"}, kind : PathKinds]

ExtractionArgs ==
    [container_ids : SeqsUpTo(ContainerIds, MaxContainers),
     containers : SUBSET ContainerIds,
     file_paths : SeqsUpTo(RequestedPaths, MaxPaths)]

\* The descriptor _extract_regular_file returns for a copied file. The copy
\* itself (shutil.copy) is taken to succeed.
extract_regular_file(p) == [original_path |-> "", extension |-> "", source |-> p.path]

\* The descriptor _archive_and_extract_directory returns for a directory. The
\* archiving (shutil.make_archive) is taken to succeed.
archive_and_extract_directory(p) ==
    [original_path |-> p.path, extension |-> "tar", source |-> p.path]

Extracting == unit = "run_container_file_extraction"

\* containers = _get_containers_info(...); `if not containers: return []`.
ExtractCall ==
    /\ Extracting
    /\ upc = "call"
    /\ IF arg.containers = {}
       THEN /\ upc' = "returned"
            /\ ctr' = ctr
       ELSE /\ upc' = "container"
            /\ ctr' = [ctr EXCEPT !.i = 1,
                                  !.umounts = [j \in 1..Len(arg.container_ids) |-> 0],
                                  !.rmtrees = [j \in 1..Len(arg.container_ids) |-> 0]]
    /\ UNCHANGED <<taskVars, unit, arg, report, ret, child, run, jobs, potFile>>

\* One iteration of `for container_id in container_ids` up to the call of
\* _extract_file_and_directory: a container that is not on the disk is
\* skipped; otherwise the mount directory is made and the container mounted,
\* and a failed mount ends the iteration with unmount_container and continue.
ExtractContainer ==
    /\ Extracting
    /\ upc = "container"
    /\ ctr.i <= Len(arg.container_ids)
    /\ IF arg.container_ids[ctr.i] \notin arg.containers
       THEN /\ ctr' = [ctr EXCEPT !.i = @ + 1]
            /\ upc' = upc
       ELSE \E mountOk \in BOOLEAN :
              IF mountOk
              THEN /\ ctr' = [ctr EXCEPT !.dirs = @ \cup {ctr.i},
                                         !.mounted = @ \cup {ctr.i},
                                         !.k = 1,
                                         !.out = <<>>]
                   /\ upc' = "extract"
              ELSE /\ ctr' = [ctr EXCEPT !.dirs = @ \cup {ctr.i},
                                         !.umounts[ctr.i] = @ + 1,
                                         !.i = @ + 1]
                   /\ upc' = upc
    /\ UNCHANGED <<taskVars, unit, arg, report, ret, child, run, jobs, potFile>>

\* One iteration of `for original_path in file_paths`. For a path that does
\* not exist, os.listdir(os.path.dirname(file_to_extract)) is called for the
\* debug log and raises FileNotFoundError when that directory does not exist.
ExtractPath ==
    /\ Extracting
    /\ upc = "extract"
    /\ ctr.k <= Len(arg.file_paths)
    /\ LET p == arg.file_paths[ctr.k]
       IN CASE p.kind = "orphan" ->
                 /\ ctr' = [ctr EXCEPT !.error = "FileNotFoundError"]
                 /\ upc' = "raised"
            [] p.kind = "file" ->
                 /\ ctr' = [ctr EXCEPT !.out = Append(@, extract_regular_file(p)),
                                       !.k = @ + 1]
                 /\ upc' = upc
            [] p.kind = "dir" ->
                 /\ ctr' = [ctr EXCEPT !.out = Append(@, archive_and_extract_directory(p)),
                                       !.k = @ + 1]
                 /\ upc' = upc
            [] OTHER ->
                 /\ ctr' = [ctr EXCEPT !.k = @ + 1]
                 /\ upc' = upc
    /\ UNCHANGED <<taskVars, unit, arg, report, ret, child, run, jobs, potFile>>

\* _extract_file_and_directory returned: `if not container_output_files:
\* continue`, else extend, unmount_container and shutil.rmtree. A failed
\* umount is logged by unmount_container; rmtree of a directory that is still
\* a mountpoint raises OSError.
ExtractEnd ==
    /\ Extracting
    /\ upc = "extract"
    /\ ctr.k > Len(arg.file_paths)
    /\ IF ctr.out = <<>>
       THEN /\ ctr' = [ctr EXCEPT !.i = @ + 1]
            /\ upc' = "container"
            /\ ret' = ret
       ELSE /\ ret' = ret \o ctr.out
            /\ \E umountOk \in BOOLEAN :
                 IF umountOk
                 THEN /\ ctr' = [ctr EXCEPT !.umounts[ctr.i] = @ + 1,
                                            !.mounted = @ \ {ctr.i},
                                            !.rmtrees[ctr.i] = @ + 1,
                                            !.dirs = @ \ {ctr.i},
                                            !.i = @ + 1]
                      /\ upc' = "container"
                 ELSE /\ ctr' = [ctr EXCEPT !.umounts[ctr.i] = @ + 1,
                                            !.rmtrees[ctr.i] = @ + 1,
                                            !.error = "OSError"]
                      /\ upc' = "raised"
    /\ UNCHANGED <<taskVars, unit, arg, report, child, run, jobs, potFile>>

\* return file_extraction_output_files
ExtractReturn ==
    /\ Extracting
    /\ upc = "container"
    /\ ctr.i > Len(arg.container_ids)
    /\ upc' = "returned"
    /\ UNCHANGED <<taskVars, helperVars, unit, arg, report, ret, child>>

ExtractInit ==
    /\ unit = "run_container_file_extraction"
    /\ arg \in ExtractionArgs
    /\ upc = "call"
    /\ report = NoReport
    /\ ret = <<>>
    /\ child = NoChild
    /\ worker = "container_file_extraction"
    /\ inputs = <<>>
    /\ mountImages = FALSE
    /\ taskConfig = NoTaskConfig
    /\ TaskFresh
    /\ HelpersIdle

ExtractNext ==
    \/ ExtractCall
    \/ ExtractContainer
    \/ ExtractPath
    \/ ExtractEnd
    \/ ExtractReturn

ExtractSpec == ExtractInit /\ [][ExtractNext]_vars

ExtractTypeOK ==
    /\ upc \in {"call", "container", "extract", "returned", "raised"}
    /\ ctr.error \in {"none", "FileNotFoundError", "OSError"}
    /\ ctr.mounted \subseteq ctr.dirs
    /\ ctr.dirs \subseteq 1..Len(arg.container_ids)
    /\ Len(ret) <= Len(arg.container_ids) * Len(arg.file_paths)

\* ------------------- bruteforce_password_hashes, two invocations in the pool
\* analyze_jenkins passes tmp_dir=None, so every invocation on a worker host
\* uses the same pot file, tempfile.gettempdir()/hashcat.pot. Two tasks of
\* the worker pool run the function at the same time; a pot file an earlier
\* run left may be there when they start.

Invocations == {1, 2}

PoolHashes == {"hashA", "hashB", "hashE"}

\* The password_hashes of one call.
HashLists == {s \in SUBSET PoolHashes : s # {} /\ Cardinality(s) <= MaxHashes}

\* A pot file left by an earlier run, or none.
StalePotFiles == {NoPotFile} \cup {[exists |-> TRUE, lines |-> <<h>>] : h \in PoolHashes}

\* One invocation: its position, whether its child runs, the hashes the child
\* has not cracked yet, those it wrote to the pot file, the list the function
\* returns and the exception it raises.
NewJob(hashes) ==
    [pc |-> "popen", alive |-> FALSE, todo |-> hashes, cracked |-> {}, result |-> <<>>,
     error |-> "none"]

Pooling == unit = "bruteforce_password_hashes"

PoolUnchanged == UNCHANGED <<taskVars, unitVars, run, ctr>>

\* child = subprocess.Popen(cmd, ...) with --potfile-path={pot_file}.
PoolPopen ==
    /\ Pooling
    /\ \E j \in Invocations :
          /\ jobs[j].pc = "popen"
          /\ jobs' = [jobs EXCEPT ![j].pc = "communicate", ![j].alive = TRUE]
    /\ UNCHANGED potFile
    /\ PoolUnchanged

\* The child of an invocation cracks one of its hashes. A hash that is
\* already in the pot file is not written again; otherwise the pair is
\* appended, and the file is created when it does not exist.
PoolCrack ==
    /\ Pooling
    /\ \E j \in Invocations :
          /\ jobs[j].alive
          /\ \E h \in jobs[j].todo :
                IF h \in Range(potFile.lines)
                THEN /\ jobs' = [jobs EXCEPT ![j].todo = @ \ {h}]
                     /\ UNCHANGED potFile
                ELSE /\ jobs' = [jobs EXCEPT ![j].todo = @ \ {h}, ![j].cracked = @ \cup {h}]
                     /\ potFile' = [exists |-> TRUE, lines |-> Append(potFile.lines, h)]
    /\ PoolUnchanged

\* The child exits, on its own or terminated by the timer, and
\* child.communicate() returns.
PoolExit ==
    /\ Pooling
    /\ \E j \in Invocations :
          /\ jobs[j].alive
          /\ jobs' = [jobs EXCEPT ![j].alive = FALSE, ![j].pc = "isfile"]
    /\ UNCHANGED potFile
    /\ PoolUnchanged

\* if os.path.isfile(pot_file): ... else return []
PoolIsFile ==
    /\ Pooling
    /\ \E j \in Invocations :
          /\ jobs[j].pc = "isfile"
          /\ jobs' = [jobs EXCEPT ![j].pc = IF potFile.exists THEN "open" ELSE "returned"]
    /\ UNCHANGED potFile
    /\ PoolUnchanged

\* with open(pot_file, "r") as fh: the pairs of the lines whose plaintext is
\* not empty. open raises FileNotFoundError when the file was removed since
\* the test.
PoolRead ==
    /\ Pooling
    /\ \E j \in Invocations :
          /\ jobs[j].pc = "open"
          /\ IF potFile.exists
             THEN jobs' = [jobs EXCEPT ![j].result = Harvest(potFile.lines),
                                       ![j].pc = "remove"]
             ELSE jobs' = [jobs EXCEPT ![j].error = "FileNotFoundError", ![j].pc = "raised"]
    /\ UNCHANGED potFile
    /\ PoolUnchanged

\* os.remove(pot_file); return result. os.remove raises FileNotFoundError
\* when the file was removed since it was read.
PoolRemove ==
    /\ Pooling
    /\ \E j \in Invocations :
          /\ jobs[j].pc = "remove"
          /\ IF potFile.exists
             THEN /\ potFile' = NoPotFile
                  /\ jobs' = [jobs EXCEPT ![j].pc = "returned"]
             ELSE /\ UNCHANGED potFile
                  /\ jobs' = [jobs EXCEPT ![j].error = "FileNotFoundError",
                                          ![j].pc = "raised"]
    /\ PoolUnchanged

PoolInit ==
    /\ unit = "bruteforce_password_hashes"
    /\ arg \in [Invocations -> HashLists]
    /\ upc = "call"
    /\ report = NoReport
    /\ ret = <<>>
    /\ child = NoChild
    /\ worker = "jenkins"
    /\ inputs = <<>>
    /\ mountImages = FALSE
    /\ taskConfig = NoTaskConfig
    /\ TaskFresh
    /\ run = NoRuns
    /\ ctr = NoContainers
    /\ jobs = [j \in Invocations |-> NewJob(arg[j])]
    /\ potFile \in StalePotFiles

PoolNext ==
    \/ PoolPopen
    \/ PoolCrack
    \/ PoolExit
    \/ PoolIsFile
    \/ PoolRead
    \/ PoolRemove

PoolSpec == PoolInit /\ [][PoolNext]_vars

PoolTypeOK ==
    /\ \A j \in Invocations :
          /\ jobs[j].pc \in {"popen", "communicate", "isfile", "open", "remove", "returned",
                             "raised"}
          /\ jobs[j].cracked \subseteq arg[j]
          /\ jobs[j].todo \subseteq arg[j]
          /\ jobs[j].error \in {"none", "FileNotFoundError"}
    /\ potFile.exists \/ potFile.lines = <<>>

\* ------------------------------------------------------------------ claims
Mounted == {i \in 1..Len(inputs) : dev[i].mounted}

AllInputs == 1..Len(inputs)

\* Input i has no usable storage path: the key is absent or its value empty.
NoUsablePath(i) == inputs[i].path \in {"absent", "empty"}

\* The processing of input i has been left: the loop moved on or the task ended.
Left(i) == idx > i \/ pc = "done"

\* C1: in the container workers, every disk whose mount() returned has had
\* umount() called exactly once when its processing has been left, on every
\* path (normal completion, empty mountpoint list, RuntimeError, other exception).
C1_UmountExactlyOnce ==
    worker \in ContainerWorkers =>
        \A i \in AllInputs : (dev[i].ret /\ Left(i)) => dev[i].um = 1

\* C2: when the only failures are RuntimeErrors of setup() or mount(), the
\* task still enters the iteration of every input, still runs the external
\* tool (the Yara scanner: it has run when the output is parsed) and returns
\* a task result.
C2_MountErrorPerDisk ==
    (/\ worker \in ContainerWorkers \cup {"yara"}
     /\ pc \in {"yparse", "done"}
     /\ faults # {}
     /\ faults \subseteq {"setup", "mount"})
        => /\ visited = AllInputs
           /\ worker = "yara" => scanned
           /\ pc = "done" => outcome = "result"

\* C3: in the Yara scan, when the output is about to be parsed or the task
\* has ended, every block device whose mount() returned has had umount()
\* called exactly once and is not mounted.
C3_YaraUmountBeforeParse ==
    (worker = "yara" /\ pc \in {"yparse", "done"}) =>
        \A i \in AllInputs : dev[i].ret => (dev[i].um = 1 /\ ~dev[i].mounted)

\* A later disk failed to mount after an earlier one was mounted, and the
\* earlier one has been unmounted before the parse.
C3_Witness ==
    /\ worker = "yara"
    /\ pc = "yparse"
    /\ "mount" \in faults
    /\ \E i \in AllInputs : dev[i].ret /\ dev[i].um = 1

\* C4 as stated: at most one input disk is mounted at any time, in the Yara
\* scan and in the container workers.
C4_AtMostOneMounted ==
    worker \in ContainerWorkers \cup {"yara"} => Cardinality(Mounted) <= 1

\* C4 amended: in the container workers at most one disk is mounted and none
\* is when setup()/mount() is about to be called for the next one; in the
\* Yara scan every mounted disk stays mounted until the scanner has exited,
\* and none is mounted when the output is parsed.
C4_OneMountedPerContainerLoop ==
    /\ worker \in ContainerWorkers =>
          /\ Cardinality(Mounted) <= 1
          /\ pc \in {"loop", "try"} => Mounted = {}
    /\ worker = "yara" =>
          /\ pc \in {"yloop", "yscan", "ywait"} => Mounted = Range(disksMounted)
          /\ pc = "yparse" => Mounted = {}

\* The second disk is mounted after the first was mounted and unmounted.
C4_Witness ==
    /\ worker \in ContainerWorkers
    /\ Len(inputs) >= 2
    /\ dev[1].ret /\ ~dev[1].mounted
    /\ dev[2].mounted

YaraRuleErrors ==
    {"RuntimeError: no Yara rules provided", "ValueError: no Yara rules collected"}

FirstWithoutPath == CHOOSE i \in AllInputs : NoUsablePath(i) /\ \A j \in 1..(i - 1) : ~NoUsablePath(j)

RECURSIVE SumTo(_, _)
SumTo(f, n) == IF n = 0 THEN 0 ELSE f[n] + SumTo(f, n - 1)

\* Lines in all the output files FLOSS has written.
TotalStrings == SumTo(strings, Len(inputs))

\* C6 as stated: whenever the total number of extracted strings is zero, the
\* FLOSS task raises RuntimeError "FLOSS found no strings." and returns no result.
C6_NoStringsRaises ==
    (worker = "floss" /\ pc = "done" /\ TotalStrings = 0) =>
        /\ outcome = "raised"
        /\ exc = "RuntimeError: FLOSS found no strings."

\* C6 amended: with zero strings in total the task never returns a result;
\* it raises "FLOSS found no strings." unless it was aborted before the final
\* test, by ValueError for an input without a path or by RuntimeError with the
\* text a tool wrote to stderr. With no input at all nothing is created,
\* counted or spawned before "FLOSS found no strings." is raised.
C6_NoStringsNoResult ==
    (worker = "floss" /\ pc = "done" /\ TotalStrings = 0) =>
        /\ outcome = "raised"
        /\ \/ exc = "RuntimeError: FLOSS found no strings."
           \/ exc = "ValueError: input file path is missing" /\ \E i \in AllInputs : NoUsablePath(i)
           \/ exc = "RuntimeError: stderr text" /\ "stderr" \in faults
        /\ (faults = {} /\ \A i \in AllInputs : ~NoUsablePath(i))
              => exc = "RuntimeError: FLOSS found no strings."
        /\ inputs = <<>> => (visited = {} /\ spawned = {} /\ outputFiles = <<>>)

\* Two tool runs that both extracted nothing, then the fatal error.
C6_Witness ==
    /\ worker = "floss"
    /\ pc = "done"
    /\ spawned = {1, 2}
    /\ TotalStrings = 0
    /\ exc = "RuntimeError: FLOSS found no strings."

\* C7: the runner never waits for the process to exit while the process is
\* blocked writing to the full stderr pipe that nobody reads.
C7_NoStderrDeadlock == ~(pc \in {"ywait", "fpoll"} /\ Blocked(proc))

\* C8: every invocation that returns a task result has sent at least one
\* "task-progress" event.
C8_ProgressEventSent == outcome = "result" => events >= 1

\* The text inputs, in input order.
TextInputs == SelectSeq([i \in AllInputs |-> i], LAMBDA i : inputs[i].kind = "text")

\* C9: in every config analyzer a file that is not valid UTF-8 is skipped:
\* the task does not raise, and it returns a result with the report files,
\* file reports and task-report sections of exactly the other inputs, in order.
C9_NonUtf8Skipped ==
    (worker \in ConfigWorkers /\ pc = "done") =>
        /\ outcome = "result"
        /\ outputFiles = TextInputs
        /\ fileReports = TextInputs
        /\ sections = TextInputs

\* C10: a line of tool output that is not valid JSON never makes the task raise.
C10_JsonDecodeNeverCrashes == "json" \in faults => outcome # "raised"

\* The texts by which a report says that no supported input was given.
NoInputTexts ==
    {"No supported input files provided", "No supported input files provided."}

\* C11: when the resolved input list is empty, the result of each of the four
\* container tasks carries a task report with an explicit "no supported
\* input" paragraph or bullet, and the task log file among its task files.
C11_EmptyInputReported ==
    (worker \in ContainerWorkers /\ inputs = <<>> /\ pc = "done")
        => /\ outcome = "result"
           /\ result.report
           /\ \E k \in 1..Len(result.text) : result.text[k] \in NoInputTexts
           /\ "log" \in result.taskFiles

\* C12: the temporary working directory made by run_container_drift,
\* list_containers, export_container or export_all_containers has been removed
\* whenever the helper has been left, by return or by exception.
C12_TempDirRemoved ==
    worker \in {"container_drift", "container_list", "container_export"}
        => tempDir # "left"

\* C13: while the cracking call waits for a cracking process that is still
\* running, a deadline timer with a finite timeout is pending, so that a
\* process that never exits on its own is terminated and the call goes on to
\* harvest the pot file; this holds too for the call made when the Jenkins
\* analyzer is entered through analyze_config.
C13_CrackingDeadline ==
    (upc = "communicate" /\ child.alive)
        => (child.timer = "armed" /\ child.interval # "None")

\* The Jenkins config has both tags that make a (username, hash) pair.
HasCredentials(config) == config.fullName # "absent" /\ config.passwordHash # "absent"

LastUser(credentials, h) ==
    credentials[CHOOSE i \in 1..Len(credentials) :
                    /\ credentials[i].hash = h
                    /\ \A j \in 1..Len(credentials) : credentials[j].hash = h => j <= i].user

C16_RedisCleanHasSummary ==
    (unit = "redis" /\ upc = "returned")
        => IF report.bullets = <<>>
           THEN /\ report.priority = "LOW"
                /\ report.summary # ""
                /\ arg = <<>> => report.summary = "No Redis config found"
           ELSE /\ report.priority = "HIGH"
                /\ report.summary = "Insecure Redis configuration found"

\* The bullet texts of the SSHD rules, in rule order.
SshdRuleTexts ==
    <<"Root login enabled.", "Password authentication enabled.",
      "Empty passwords permitted.">>

\* Rule r of the SSHD analyzer matches some line of the config.
SshdRuleMatched(r, config) ==
    \E i \in 1..Len(config) :
        CASE r = 1 -> permit_root_login_re(config[i])
          [] r = 2 -> password_authentication_re(config[i])
          [] r = 3 -> permit_empty_passwords_re(config[i])

\* C17: the SSHD report has exactly one bullet per matched rule, in rule
\* order, whatever the order of the lines and however many lines match; it is
\* HIGH with "Insecure SSHD configuration found" iff a rule matched, else LOW
\* with "No issues found in SSH configuration".
C17_SshdOneBulletPerRule ==
    (unit = "sshd" /\ upc = "returned")
        => LET hit == {r \in 1..3 : SshdRuleMatched(r, arg)}
               b == report.bullets
           IN /\ Len(b) = Cardinality(hit)
              /\ \A r \in hit :
                    b[Cardinality({q \in hit : q <= r})].text = SshdRuleTexts[r]
              /\ \A k \in 1..Len(b) : b[k].level = 1
              /\ IF hit # {}
                 THEN /\ report.priority = "HIGH"
                      /\ report.summary = "Insecure SSHD configuration found"
                 ELSE /\ report.priority = "LOW"
                      /\ report.summary = "No issues found in SSH configuration"

\* The three weak directives on three lines, last rule first.
C17_Witness ==
    /\ unit = "sshd"
    /\ upc = "returned"
    /\ Len(arg) = 3
    /\ permit_empty_passwords_re(arg[1])
    /\ password_authentication_re(arg[2])
    /\ permit_root_login_re(arg[3])
    /\ Len(report.bullets) = 3
    /\ report.priority = "HIGH"

\* What a report is compared on: its findings and the rank of its priority.
Outcome(r) == [findings |-> Range(r.bullets), rank |-> PriorityRank(r.priority)]

\* The outcomes of the counting analyzers over all their configs.
ConfigOutcomes ==
    [u \in CountingAnalyzers |->
        {Outcome(AnalyzeConfig(u, config)) : config \in SeqsUpTo(ConfigLines(u), MaxConfigLines)}]

\* The outcomes of the Jenkins analyzer: for each config, nothing cracked or
\* the password of its hash cracked.
JenkinsOutcomes ==
    UNION { { Outcome(JenkinsReport(JenkinsCall(c).version,
                                    credentials_registry(JenkinsCall(c).credentials),
                                    Harvest(pot))) :
                pot \in {<<>>} \cup {<<h>> : h \in DOMAIN credentials_registry(
                                                        JenkinsCall(c).credentials)} } :
            c \in JenkinsConfigs }

\* Outcome b has every finding of a and at least one more.
MoreFindings(a, b) == a.findings \subseteq b.findings /\ a.findings # b.findings

\* A step of a config analyzer leaves the priority of its report or raises it.
PriorityNotLowered ==
    (unit \in CountingAnalyzers \cup {"jenkins", "analyze_jenkins"})
        => PriorityRank(report'.priority) >= PriorityRank(report.priority)

\* C18: for SSHD, Redis, Jupyter, Tomcat and Jenkins, an input that yields
\* every finding of another input and at least one more has a priority at
\* least as high, and while a report is built its priority is never assigned
\* a value lower than one it already held.
C18_PriorityMonotone ==
    /\ [](upc = "returned" =>
            /\ unit \in CountingAnalyzers =>
                  \A other \in ConfigOutcomes[unit] :
                      MoreFindings(Outcome(report), other)
                          => other.rank >= PriorityRank(report.priority)
            /\ unit = "jenkins" =>
                  \A other \in JenkinsOutcomes :
                      MoreFindings(Outcome(report), other)
                          => other.rank >= PriorityRank(report.priority))
    /\ [][PriorityNotLowered]_vars

C18_Witness ==
    /\ unit = "tomcat"
    /\ upc = "returned"
    /\ Len(report.bullets) = 1
    /\ report.priority = "HIGH"
    /\ \E other \in ConfigOutcomes[unit] : MoreFindings(Outcome(report), other)

SeverityTokens == {"INFO", "LOW", "MEDIUM", "HIGH", "CRITICAL"}

\* C19: a reply that is one of INFO, LOW, MEDIUM, HIGH, CRITICAL in any
\* letter case maps to that level, and every other reply maps to INFO.
C19_ExactTokenElseInfo ==
    (unit = "llm_analyze_artifact" /\ upc = "returned")
        => report.priority =
              (IF \E p \in SeverityTokens : Upper(arg) = Token(p)
               THEN CHOOSE p \in SeverityTokens : Upper(arg) = Token(p)
               ELSE "INFO")

\* C19 (amended): the level is the first of CRITICAL, HIGH, MEDIUM, LOW that
\* occurs anywhere in the upper-cased reply, and INFO when none occurs.
C19_FirstTokenContained ==
    (unit = "llm_analyze_artifact" /\ upc = "returned")
        => LET found == {p \in SeverityTokens \ {"INFO"} : Contains(Upper(arg), Token(p))}
           IN IF found = {} THEN report.priority = "INFO"
              ELSE /\ report.priority \in found
                   /\ \A p \in found : PriorityRank(p) <= PriorityRank(report.priority)

C19_Witness ==
    /\ unit = "llm_analyze_artifact"
    /\ upc = "returned"
    /\ Contains(Upper(arg), Token("LOW"))
    /\ Contains(Upper(arg), Token("HIGH"))
    /\ report.priority = "HIGH"

\* The value of a key of a container item; an absent key reads as None.
ValueOf(item, key) == IF key \in DOMAIN item THEN item[key] ELSE JsonAbsent

\* The entries a value contributes: those of a list, none otherwise.
Entries(x) == IF x.t = "list" THEN x.v ELSE <<>>

\* The records due before those of item i.
RECURSIVE RecordsBefore(_, _)
RecordsBefore(data, i) ==
    IF i = 1 THEN 0
    ELSE RecordsBefore(data, i - 1)
         + Len(Entries(ValueOf(data[i - 1], "AddedOrModified")))
         + Len(Entries(ValueOf(data[i - 1], "InaccessibleFiles")))

\* Record rec is the one due for entry file_info of item with this status.
IsRecordOf(rec, item, status, file_info) ==
    /\ rec.drift_status = status
    /\ rec.container_id = (IF "ContainerID" \in DOMAIN item THEN item.ContainerID ELSE "")
    /\ rec.container_type = (IF "ContainerType" \in DOMAIN item THEN item.ContainerType ELSE "")
    /\ \A k \in 1..Len(MetadataFields) :
          LET f == MetadataFields[k]
              out == IF f = "full_path" THEN "file_path" ELSE f
          IN rec[out] = (IF f \in DOMAIN file_info THEN file_info[f] ELSE "-")

\* C20: the flattened drift data has, item by item, one record per entry of
\* AddedOrModified ("File added or modified") followed by one per entry of
\* InaccessibleFiles ("File deleted"), in entry order, with the item's
\* ContainerID and ContainerType and "-" for every missing metadata field; a
\* value that is absent, null, empty or not a list contributes no record.
C20_FlatternOneRecordPerEntry ==
    (unit = "flattern_container_drift_data" /\ upc = "returned")
        => /\ Len(ret) = RecordsBefore(arg, Len(arg) + 1)
           /\ \A i \in 1..Len(arg) :
                 LET added == Entries(ValueOf(arg[i], "AddedOrModified"))
                     deleted == Entries(ValueOf(arg[i], "InaccessibleFiles"))
                     base == RecordsBefore(arg, i)
                 IN /\ \A k \in 1..Len(added) :
                          IsRecordOf(ret[base + k], arg[i], "File added or modified",
                                     added[k])
                    /\ \A k \in 1..Len(deleted) :
                          IsRecordOf(ret[base + Len(added) + k], arg[i], "File deleted",
                                     deleted[k])

\* Two items, one with both lists and one with a non-list value and a list.
C20_Witness ==
    /\ unit = "flattern_container_drift_data"
    /\ upc = "returned"
    /\ Len(arg) = 2
    /\ ValueOf(arg[1], "AddedOrModified").t = "obj"
    /\ Len(Entries(ValueOf(arg[2], "AddedOrModified"))) = 1
    /\ Len(Entries(ValueOf(arg[2], "InaccessibleFiles"))) = 1
    /\ Len(ret) = 3

\* C24: in the FLOSS task, when the tool wrote text to stderr for an input, the
\* task raises RuntimeError with that text as soon as the exited process is
\* reaped: no task result is created, and the inputs after it are neither
\* visited nor given to the tool. RuntimeError with stderr text is raised only
\* after a run that wrote to stderr.
C24_StderrTextRaises ==
    worker = "floss" =>
        /\ (proc.pipe > 0 /\ pc # "fpoll") =>
              /\ pc = "done"
              /\ outcome = "raised"
              /\ exc = "RuntimeError: stderr text"
              /\ result = NoResult
              /\ visited = 1..idx
              /\ spawned = 1..idx
              /\ outputFiles = [i \in 1..(idx - 1) |-> i]
        /\ exc = "RuntimeError: stderr text" => (proc.pipe > 0 /\ ~proc.alive)

\* The first of two inputs made the tool write to stderr: the task raised and
\* never looked at the second.
C24_Witness ==
    /\ worker = "floss"
    /\ Len(inputs) = 2
    /\ pc = "done"
    /\ exc = "RuntimeError: stderr text"
    /\ idx = 1
    /\ visited = {1}

\* C28: the FLOSS task does not fail for want of strings when some input gave
\* strings: if every input has a path, no run wrote to stderr and the output
\* files hold at least one line in total, the task returns a result with one
\* output file per input, in input order.
C28_SomeStringsReturns ==
    (/\ worker = "floss"
     /\ pc = "done"
     /\ \A i \in AllInputs : HasPath(inputs[i])
     /\ "stderr" \notin faults
     /\ TotalStrings > 0)
        => /\ outcome = "result"
           /\ outputFiles = [i \in AllInputs |-> i]

\* C29: in the container workers umount() is only called on the block device
\* built for the current input disk and only after its mount() returned: the
\* finally block never meets an unbound bd, and no device whose mount() did
\* not return has umount() called on it.
C29_UmountOnlyAfterMount ==
    worker \in ContainerWorkers =>
        /\ exc # "UnboundLocalError"
        /\ \A i \in AllInputs : dev[i].um > 0 => dev[i].ret

\* A required parameter of container_file_extraction that the user left out
\* or left empty.
NotProvided(value) == ~value.present \/ value.s = <<>>

\* C27: container_file_extraction checks its required parameters before it
\* touches a disk: when container_ids or file_paths is missing or the empty
\* string, the task returns a result whose report has the bullet for that
\* parameter, and no block device is built, set up or mounted.
C27_RequiredParametersChecked ==
    (/\ worker = "container_file_extraction"
     /\ pc # "start"
     /\ NotProvided(taskConfig.container_ids) \/ NotProvided(taskConfig.file_paths))
        => /\ pc = "done"
           /\ outcome = "result"
           /\ result.report
           /\ NotProvided(taskConfig.container_ids) =>
                 "Container IDs not provided. Container ID is required." \in Range(result.text)
           /\ NotProvided(taskConfig.file_paths) =>
                 "File paths not provided. File paths are required." \in Range(result.text)
           /\ bd = 0
           /\ \A i \in AllInputs : dev[i] = NoDev

\* The matches of the output lines in discovery order: line by line, and
\* within a line element by element.
RECURSIVE Discovered(_)
Discovered(lines) == IF lines = <<>> THEN <<>> ELSE Head(lines) \o Discovered(Tail(lines))

\* The number a decimal text stands for.
RECURSIVE DecimalValue(_)
DecimalValue(text) ==
    IF text = <<>> THEN 0
    ELSE 10 * DecimalValue(SubSeq(text, 1, Len(text) - 1))
         + ((CHOOSE d \in 1..10 : Digits[d] = text[Len(text)]) - 1)

\* Decimal text: digits only, no leading zero except for "0" itself.
IsDecimalText(text) ==
    /\ text # <<>>
    /\ \A k \in 1..Len(text) : text[k] \in Range(Digits)
    /\ Len(text) > 1 => text[1] # "0"

\* C23: the Yara scan report has priority CRITICAL exactly when a match was
\* parsed and the Report default otherwise; its table has the columns
\* filepath, hash, rule, desc, ref, score and one row per match in discovery
\* order, the filepath being the display name of the input whose path is the
\* match's ImagePath, else the ImagePath itself, and the score decimal text.
C23_YaraReportTable ==
    (unit = "generate_report_from_matches" /\ upc = "returned") =>
        LET hits == Discovered(arg.lines)
            WithPath(h) == {i \in 1..Len(arg.input_files) :
                               /\ "path" \in DOMAIN arg.input_files[i]
                               /\ arg.input_files[i].path = h.ImagePath}
        IN /\ (report.priority = "CRITICAL") = (hits # <<>>)
           /\ hits = <<>> => report.priority = "LOW"
           /\ report.table.columns = <<"filepath", "hash", "rule", "desc", "ref", "score">>
           /\ Len(report.table.rows) = Len(hits)
           /\ \A k \in 1..Len(hits) :
                 LET row == report.table.rows[k]
                 IN /\ Len(row) = 6
                    /\ IF WithPath(hits[k]) # {}
                       THEN \E i \in WithPath(hits[k]) :
                               row[1] = arg.input_files[i].display_name
                       ELSE row[1] = hits[k].ImagePath
                    /\ row[2] = hits[k].SHA256
                    /\ row[3] = hits[k].Signature
                    /\ row[4] = hits[k].Description
                    /\ row[5] = hits[k].Reference
                    /\ IsDecimalText(row[6])
                    /\ DecimalValue(row[6]) = hits[k].Score

\* Two output lines, the first with two matches: three rows, the first for
\* an input file shown by its display name, the last with score 100.
C23_Witness ==
    /\ unit = "generate_report_from_matches"
    /\ upc = "returned"
    /\ Len(arg.lines) = 2
    /\ Len(arg.lines[1]) = 2
    /\ Len(report.table.rows) = 3
    /\ report.table.rows[1][1] = "a.bin"
    /\ report.table.rows[3][6] = <<"1", "0", "0">>
    /\ report.priority = "CRITICAL"

\* The records a container-explorer run contributes: those of its output
\* file if it exited with code 0, none otherwise.
RunRecords(r) ==
    IF r.ran /\ r.exit = 0 /\ r.file.kind = "json"
    THEN flattern_container_drift_data(r.file.data) ELSE <<>>

\* The return of run_container_drift adds no output file without drift data,
\* and with drift data a JSON file followed by a CSV file.
DriftFilesAdded ==
    pc = "rmtree" =>
        LET added == SubSeq(outputFiles', Len(outputFiles) + 1, Len(outputFiles'))
        IN /\ SubSeq(outputFiles', 1, Len(outputFiles)) = outputFiles
           /\ IF ret = <<>> THEN added = <<>>
              ELSE /\ Len(added) = 2
                   /\ added[1].extension = "json"
                   /\ added[2].extension = "csv"
                   /\ added[1].written = Len(ret)

\* The records written to the JSON output files.
RECURSIVE RecordsWritten(_)
RecordsWritten(files) ==
    IF files = <<>> THEN 0
    ELSE (IF Head(files).extension = "json" THEN Head(files).written ELSE 0)
         + RecordsWritten(Tail(files))

\* C21: run_container_drift returns the containerd records followed by the
\* Docker records; a mountpoint with drift data adds exactly two output
\* files, JSON then CSV, and one without adds none; the task report states
\* the number of output files and the number of drift records of all
\* mountpoints processed.
C21_DriftRecordsAndReport ==
    /\ [](pc = "rmtree" =>
            LET c == RunRecords(run.containerd)
                d == RunRecords(run.docker)
            IN /\ Len(ret) = Len(c) + Len(d)
               /\ SubSeq(ret, 1, Len(c)) = c
               /\ SubSeq(ret, Len(c) + 1, Len(ret)) = d)
    /\ [][DriftFilesAdded]_vars
    /\ []((worker = "container_drift" /\ outcome = "result" /\ inputs # <<>>) =>
            /\ Len(result.text) = 2
            /\ result.text[1].text = "output files created"
            /\ result.text[1].n = Len(outputFiles)
            /\ result.text[2].text = "files added, modified, or deleted"
            /\ result.text[2].n = RecordsWritten(outputFiles))

\* One mountpoint with 3 containerd and 4 Docker records: 2 output files and
\* 7 files in the report.
C21_Witness ==
    /\ worker = "container_drift"
    /\ outcome = "result"
    /\ Len(outputFiles) = 2
    /\ outputFiles[1].written = 7
    /\ result.text[1].n = 2
    /\ result.text[2].n = 7

Processed == {j \in 1..Len(ctr.umounts) : j < ctr.i /\ arg.container_ids[j] \in arg.containers}

\* C25: in run_container_file_extraction, once the processing of a requested
\* container found on the disk has ended, unmount_container was called exactly
\* once with its mount directory and the directory was removed exactly once;
\* when the function returns no container is mounted and no mount directory
\* is left.
C25_UnmountedAndRemoved ==
    Extracting =>
        /\ \A j \in Processed : ctr.umounts[j] = 1 /\ ctr.rmtrees[j] = 1
        /\ upc = "returned" => ctr.mounted = {} /\ ctr.dirs = {}

\* The descriptors of the existing files and directories among the paths.
RECURSIVE Descriptors(_)
Descriptors(paths) ==
    IF paths = <<>> THEN <<>>
    ELSE LET p == paths[Len(paths)]
             rest == Descriptors(SubSeq(paths, 1, Len(paths) - 1))
         IN IF p.kind = "file"
            THEN Append(rest, [original_path |-> "", extension |-> "", source |-> p.path])
            ELSE IF p.kind = "dir"
            THEN Append(rest, [original_path |-> p.path, extension |-> "tar",
                               source |-> p.path])
            ELSE rest

\* C26: _extract_file_and_directory never raises for a requested path that
\* does not exist, also when its parent directory does not exist, and its
\* result is one descriptor per existing regular file or directory, in
\* request order.
C26_MissingPathsSkipped ==
    Extracting =>
        /\ ctr.error # "FileNotFoundError"
        /\ upc = "extract" => ctr.out = Descriptors(SubSeq(arg.file_paths, 1, ctr.k - 1))

\* The invocations whose child was started and that have not read the pot
\* file yet.
YetToRead == {j \in Invocations : Pooling /\ jobs[j].pc \in {"communicate", "isfile", "open"}}

\* A step that removes the pot file is made when no other invocation has yet
\* to read it.
PotFileRemovedSafely ==
    potFile.exists /\ ~potFile'.exists =>
        \A j \in YetToRead : jobs'[j].pc # jobs[j].pc

\* C30: under every interleaving of two invocations, and with a pot file of an
\* earlier run present, bruteforce_password_hashes returns only pairs whose
\* hash is one of the password_hashes passed to that call, and an invocation
\* never deletes the pot file another invocation has yet to read.
C30_OwnHashesOnly ==
    /\ [](Pooling =>
            \A j \in Invocations :
                \A k \in 1..Len(jobs[j].result) : jobs[j].result[k].hash \in arg[j])
    /\ [][PotFileRemovedSafely]_vars

====
